---- MODULE Spec2Model ----
(***************************************************************************)
(* Model of the order / checkout engine of the rewards portal:             *)
(* server/routes.ts (price slabs, cart, points checkout, co-pay checkout,  *)
(* bulk-buy requests, employees), the one-time-password login of           *)
(* server/auth-otp.ts, over the persistence layer of server/storage.ts.    *)
(*                                                                         *)
(* Money: product prices are whole rupees; inrPerPoint is kept in          *)
(* hundredths of a rupee (decimal(10,2)), so that ceil(price/inrPerPoint)  *)
(* is computed exactly.  The rates used (1.00, 2.00) are exact in          *)
(* binary floating point, so the exact quotient and the JavaScript         *)
(* quotient have the same ceiling.                                         *)
(*                                                                         *)
(* Nullable integers are <<>> (null) or <<n>>; nullable strings use NULL.  *)
(***************************************************************************)
EXTENDS Integers, Sequences, FiniteSets, TLC

VARIABLES products, employees, campaigns, campaignProducts, branding,
          cartItems, orders, payments, resp,
          bulkBuyCartItems, bulkBuyRequests, mailLog,
          slabsArg, slabsResult, priceArg, priceResult,
          inflight, otps, sessions

\* the bulk-buy tables and the outcome of the last notification
bulkVars == <<bulkBuyCartItems, bulkBuyRequests, mailLog>>

\* argument and result of a call of normalizePriceSlabs (slabsArg, slabsResult)
\* and of getUnitPriceForQty (priceArg, priceResult)
callVars == <<slabsArg, slabsResult, priceArg, priceResult>>

\* the one-time passwords and the sessions; inflight holds the checkout
\* requests whose handler is between two awaits
authVars == <<otps, sessions>>

vars == <<products, employees, campaigns, campaignProducts, branding,
          cartItems, orders, payments, resp, bulkVars, callVars, inflight, authVars>>

(***************************************************************************)
(* Bounds of the model.                                                    *)
(***************************************************************************)
MaxCartItems == 2
MaxQty == 2
MaxOrders == 2
MaxTxns == 1

NULL == "null"
Null == <<>>
Some(n) == <<n>>
IsNull(v) == v = <<>>
Val(v) == v[1]

Employees == {"e1"}
Products == {"p1", "p2"}
Campaigns == {"c1"}
Colors == {NULL, "red"}
Sizes == {NULL}
Quantities == 1..MaxQty

(***************************************************************************)
(* Number(text): the decimal texts that occur in the model and the number  *)
(* JavaScript's Number() gives for them; <<>> stands for NaN.              *)
(***************************************************************************)
Number(text) ==
  CASE text = "99" -> Some(99)
    [] text = "60" -> Some(60)
    [] text = "50" -> Some(50)
    [] text = "0" -> Some(0)
    [] text = "-5" -> Some(0 - 5)
    [] text = "" -> Some(0)
    [] text = "1" -> Some(1)
    [] text = "2" -> Some(2)
    [] text = "4" -> Some(4)
    [] text = "5" -> Some(5)
    [] text = "9" -> Some(9)
    [] text = "10" -> Some(10)
    [] text = "15" -> Some(15)
    [] text = "80" -> Some(80)
    [] text = "100" -> Some(100)
    [] text = "120" -> Some(120)
    [] OTHER -> Null

isFinite(n) == ~IsNull(n)

\* Math.ceil(a / b) for b > 0, on exact rationals.
ceil(a, b) == 0 - ((0 - a) \div b)

Max(a, b) == IF a >= b THEN a ELSE b

RECURSIVE SumSeq(_)
SumSeq(s) == IF s = <<>> THEN 0 ELSE Head(s) + SumSeq(Tail(s))

\* (x || d) on numbers: 0 is falsy.
OrElse(x, d) == IF x = 0 THEN d ELSE x

(***************************************************************************)
(* getUnitPriceForQty (routes.ts 117-137).                                 *)
(***************************************************************************)
\* variant: the upper end of the range is excluded
SlabMatchesBelowMax(s, qty) ==
  /\ qty >= s.minQty
  /\ (IsNull(s.maxQty) \/ qty < Val(s.maxQty))

SlabMatches(s, qty) ==
  /\ qty >= s.minQty
  /\ (IsNull(s.maxQty) \/ qty <= Val(s.maxQty))

RECURSIVE find(_, _)
find(slabs, qty) ==
  IF slabs = <<>> THEN <<>>
  ELSE IF SlabMatches(Head(slabs), qty) THEN <<Head(slabs)>>
  ELSE find(Tail(slabs), qty)

getUnitPriceForQty(product, qty) ==
  LET base == Val(Number(product.price))
      slabs == product.priceSlabs
      match == find(slabs, qty)
  IN IF Len(slabs) = 0 THEN base
     ELSE IF match = <<>> THEN base
     ELSE LET slabPrice == Number(match[1].price)
          IN IF ~isFinite(slabPrice) \/ Val(slabPrice) < 0 THEN base
             ELSE Val(slabPrice)

(***************************************************************************)
(* normalizePriceSlabs (routes.ts 57-115).  The input is the priceSlabs    *)
(* value of a request body: anything that is not an array, or an array of  *)
(* records whose fields are texts (NULL for a missing field).  The result  *)
(* is the returned list, or the message of the Error thrown.               *)
(***************************************************************************)
\* Number(rawMax) of a text that is no number
NaN == <<0, 0>>

\* String.prototype.trim on the texts of the model
trim(text) ==
  CASE text = " " -> ""
    [] text = " 80 " -> "80"
    [] OTHER -> text

\* the .map callback (routes.ts 61-71)
coerceSlab(s) ==
  [minQty |-> Number(s.minQty),
   maxQty |-> IF s.maxQty = "" \/ s.maxQty = NULL THEN Null
              ELSE IF IsNull(Number(s.maxQty)) THEN NaN
              ELSE Number(s.maxQty),
   price |-> trim(IF s.price = NULL THEN "" ELSE s.price)]

\* the .filter predicate (routes.ts 72)
retained(s) == isFinite(s.minQty) /\ Val(s.minQty) > 0 /\ s.price # ""

cleanedOf(items) ==
  LET mapped == [i \in 1..Len(items) |-> coerceSlab(items[i])]
      kept == SelectSeq(mapped, retained)
  IN [i \in 1..Len(kept) |-> [kept[i] EXCEPT !.minQty = Val(@)]]

PriceError == "Slab price must be a number >= 0"
MaxQtyError == "Max Qty must be empty (open-ended) or >= Min Qty"
OpenEndedError == "Only one open-ended slab (blank Max Qty) is allowed"
OverlapError == "Slab ranges overlap. Please make ranges non-overlapping."

\* price + range validation (routes.ts 75-84): the message of the first
\* throw, "" when the loop ends
RECURSIVE validate(_, _)
validate(slabs, i) ==
  IF i > Len(slabs) THEN ""
  ELSE LET s == slabs[i]
           p == Number(s.price)
       IN IF ~isFinite(p) \/ Val(p) < 0 THEN PriceError
          ELSE IF ~IsNull(s.maxQty) /\ (s.maxQty = NaN \/ Val(s.maxQty) < s.minQty)
          THEN MaxQtyError
          ELSE validate(slabs, i + 1)

\* routes.ts 87
openEnded(slabs) == Len(SelectSeq(slabs, LAMBDA s : IsNull(s.maxQty)))

\* the comparator of routes.ts 93 is negative
slabBefore(a, b) ==
  \/ a.minQty < b.minQty
  \/ /\ a.minQty = b.minQty
     /\ ~IsNull(a.maxQty)
     /\ (IsNull(b.maxQty) \/ Val(a.maxQty) < Val(b.maxQty))

RECURSIVE insertSlab(_, _)
insertSlab(sorted, s) ==
  IF sorted = <<>> THEN <<s>>
  ELSE IF slabBefore(s, Head(sorted)) THEN <<s>> \o sorted
  ELSE <<Head(sorted)>> \o insertSlab(Tail(sorted), s)

RECURSIVE sortSlabs(_)
\* variant: the list is left in input order
sortSlabsInputOrder(slabs) == slabs

\* Array.prototype.sort (stable) with the comparator of routes.ts 92-94
sortSlabs(slabs) ==
  IF slabs = <<>> THEN <<>>
  ELSE insertSlab(sortSlabs(SubSeq(slabs, 1, Len(slabs) - 1)), slabs[Len(slabs)])

\* n <= toMax(max)
atMost(n, max) == IsNull(max) \/ n <= Val(max)

\* variant: ranges that only touch are accepted
overlapOpen(a, b) ==
  /\ (IsNull(b.maxQty) \/ a.minQty < Val(b.maxQty))
  /\ (IsNull(a.maxQty) \/ b.minQty < Val(a.maxQty))

\* routes.ts 107
overlap(a, b) == atMost(a.minQty, b.maxQty) /\ atMost(b.minQty, a.maxQty)

\* routes.ts 99-112
anyOverlap(slabs) ==
  \E i \in 1..Len(slabs) : \E j \in (i + 1)..Len(slabs) :
    overlap(slabs[i], slabs[j])

Returned(slabs) == [error |-> "", slabs |-> slabs]
Thrown(message) == [error |-> message, slabs |-> <<>>]

normalizePriceSlabs(input) ==
  IF ~input.isArray THEN Returned(<<>>)
  ELSE LET c == cleanedOf(input.items)
       IN IF validate(c, 1) # "" THEN Thrown(validate(c, 1))
          ELSE IF openEnded(c) > 1 THEN Thrown(OpenEndedError)
          ELSE IF anyOverlap(sortSlabs(c)) THEN Thrown(OverlapError)
          ELSE Returned(sortSlabs(c))

(***************************************************************************)
(* Persistence reads (storage.ts).                                         *)
(***************************************************************************)
getProduct(id) == IF id \in DOMAIN products THEN <<products[id]>> ELSE <<>>

getCampaign(id) == IF id \in DOMAIN campaigns THEN <<campaigns[id]>> ELSE <<>>

\* rows of a set of records with an integer id, in id order
RECURSIVE SortById(_)
SortById(S) ==
  IF S = {} THEN <<>>
  ELSE LET m == CHOOSE x \in S : \A y \in S : x.id <= y.id
       IN <<m>> \o SortById(S \ {m})

getCartItems(employeeId) ==
  SortById({c \in cartItems : c.employeeId = employeeId})

getCartItem(id) ==
  LET S == {c \in cartItems : c.id = id}
  IN IF S = {} THEN <<>> ELSE <<CHOOSE c \in S : TRUE>>

getOrdersByEmployeeId(employeeId) ==
  SelectSeq(orders, LAMBDA o : o.employeeId = employeeId)

getProductCampaigns(productId) ==
  {c \in DOMAIN campaigns : <<c, productId>> \in campaignProducts}

getCampaignProducts(campaignId) ==
  {p \in DOMAIN products : <<campaignId, p>> \in campaignProducts}

\* branding?.maxSelectionsPerUser ?? 1
maxSelectionsOf(b) ==
  IF IsNull(b.maxSelectionsPerUser) THEN 1 ELSE Val(b.maxSelectionsPerUser)

\* parseFloat(branding?.inrPerPoint ?? "1"), in hundredths
inrPerPointOf(b) ==
  IF IsNull(b.inrPerPoint) THEN 100 ELSE Val(b.inrPerPoint)

(***************************************************************************)
(* Responses.  Every handler leaves the response of the request in resp.   *)
(***************************************************************************)
NoResp ==
  [op |-> "none", status |-> "none", named |-> NULL, limit |-> 0,
   txnId |-> 0, expected |-> 0, paid |-> 0, created |-> 0]

NoFields == [f \in {} |-> 0]

Reply(op, status, fields) ==
  [f \in DOMAIN NoResp |->
     IF f = "op" THEN op
     ELSE IF f = "status" THEN status
     ELSE IF f \in DOMAIN fields THEN fields[f]
     ELSE NoResp[f]]

(***************************************************************************)
(* Initial state: a seeded catalogue, one campaign, empty cart, no orders. *)
(***************************************************************************)
InitialPoints == {0, 150}

\* the checkout requests that may be in progress at the same time, and the
\* state of one that is not
Requests == {"r1", "r2"}
Idle == [pc |-> "idle"]

\* no call of normalizePriceSlabs or getUnitPriceForQty is being observed
NoSlabs == [isArray |-> FALSE, items |-> <<>>]
NotCalled == [error |-> "not called", slabs |-> <<>>]
NoProduct == [price |-> "0", priceSlabs |-> <<>>]
NoPrice == [qty |-> 0, returned |-> Null]
InitialStock == 3

\* the branding row: no rate set (1 rupee per point) and one selection per
\* user, or 2 rupees per point and unlimited selections
BrandingValues ==
  {[inrPerPoint |-> Null, maxSelectionsPerUser |-> Some(1)],
   [inrPerPoint |-> Some(200), maxSelectionsPerUser |-> Some(0 - 1)]}

Init ==
  /\ products =
       [p \in Products |->
          IF p = "p1"
          THEN [name |-> "Mug", price |-> "99", priceSlabs |-> <<>>,
                stock |-> InitialStock, isActive |-> TRUE, bulkBuy |-> TRUE]
          ELSE [name |-> "Pen", price |-> "60",
                priceSlabs |-> <<[minQty |-> 2, maxQty |-> Null, price |-> "50"]>>,
                stock |-> InitialStock, isActive |-> TRUE, bulkBuy |-> TRUE]]
  /\ \E pts \in InitialPoints : employees = [e \in Employees |->
                                              [points |-> pts, bulkBuyAllowed |-> TRUE]]
  /\ campaigns = [c \in Campaigns |->
                    [name |-> "Diwali", isActive |-> TRUE,
                     maxProductsPerUser |-> Some(2)]]
  /\ campaignProducts = {<<"c1", "p1">>}
  /\ branding \in BrandingValues
  /\ cartItems = {}
  /\ orders = <<>>
  /\ payments = <<>>
  /\ resp = NoResp
  /\ bulkBuyCartItems = {}
  /\ bulkBuyRequests = <<>>
  /\ mailLog = "none"
  /\ inflight = [r \in Requests |-> Idle]
  /\ otps = <<>>
  /\ sessions = <<>>
  /\ slabsArg = NoSlabs
  /\ slabsResult = NotCalled
  /\ priceArg = NoProduct
  /\ priceResult = NoPrice

(***************************************************************************)
(* Campaign usage as POST /api/cart counts it (routes.ts 609-622): orders  *)
(* and cart items of the employee whose campaignId is the campaign's id.   *)
(***************************************************************************)
\* variant: the cart is not counted
usageByCampaignIdOrdersOnly(employeeId, campaignId) ==
  LET employeeOrders == getOrdersByEmployeeId(employeeId)
  IN SumSeq([i \in 1..Len(employeeOrders) |->
               IF employeeOrders[i].campaignId = campaignId
               THEN OrElse(employeeOrders[i].quantity, 1) ELSE 0])

usageByCampaignId(employeeId, campaignId) ==
  LET employeeOrders == getOrdersByEmployeeId(employeeId)
      currentCart == getCartItems(employeeId)
  IN SumSeq([i \in 1..Len(employeeOrders) |->
               IF employeeOrders[i].campaignId = campaignId
               THEN OrElse(employeeOrders[i].quantity, 1) ELSE 0])
     + SumSeq([i \in 1..Len(currentCart) |->
               IF currentCart[i].campaignId = campaignId
               THEN OrElse(currentCart[i].quantity, 1) ELSE 0])

(***************************************************************************)
(* Campaign usage as PUT /api/cart/:id counts it (routes.ts 698-711):      *)
(* orders and cart items whose product is linked to the campaign, the      *)
(* item being updated excluded.                                            *)
(***************************************************************************)
usageByCampaignProducts(employeeId, campaignId, itemId) ==
  LET employeeOrders == getOrdersByEmployeeId(employeeId)
      currentCart == getCartItems(employeeId)
      campaignProductIds == getCampaignProducts(campaignId)
  IN SumSeq([i \in 1..Len(employeeOrders) |->
               IF employeeOrders[i].productId \in campaignProductIds
               THEN OrElse(employeeOrders[i].quantity, 1) ELSE 0])
     + SumSeq([i \in 1..Len(currentCart) |->
               IF currentCart[i].id # itemId
                  /\ currentCart[i].productId \in campaignProductIds
               THEN OrElse(currentCart[i].quantity, 1) ELSE 0])

FreshCartId == CHOOSE i \in 1..(MaxCartItems + 1) :
                 /\ \A c \in cartItems : c.id # i
                 /\ \A j \in 1..(i - 1) : \E c \in cartItems : c.id = j

updateCartItem(id, quantity) ==
  {IF c.id = id THEN [c EXCEPT !.quantity = quantity] ELSE c : c \in cartItems}

dbUnchanged ==
  UNCHANGED <<products, employees, campaigns, campaignProducts, branding,
              cartItems, orders, payments,
              bulkVars, callVars, inflight, authVars>>

(***************************************************************************)
(* POST /api/cart (routes.ts 576-669).                                     *)
(***************************************************************************)
CampaignLimitReached(employeeId, campaignId, requestedQty) ==
  /\ campaignId # NULL
  /\ ~IsNull(getCampaign(campaignId))
  /\ LET campaign == getCampaign(campaignId)[1]
     IN /\ campaign.isActive
        /\ ~IsNull(campaign.maxProductsPerUser)
        /\ usageByCampaignId(employeeId, campaignId) + requestedQty
             > Val(campaign.maxProductsPerUser)

PostCart(e, pid, color, size, requestedQty, cid) ==
  LET product == getProduct(pid)
      currentItems == getCartItems(e)
      matching == SelectSeq(currentItems,
                     LAMBDA it : /\ it.productId = pid
                                 /\ it.selectedColor = color
                                 /\ it.selectedSize = size)
  IN IF IsNull(product)
     THEN resp' = Reply("POST_cart", "product_not_found", NoFields) /\ dbUnchanged
     ELSE IF OrElse(product[1].stock, 0) < requestedQty
     THEN resp' = Reply("POST_cart", "insufficient_stock", NoFields) /\ dbUnchanged
     ELSE IF CampaignLimitReached(e, cid, requestedQty)
     THEN /\ resp' = Reply("POST_cart", "campaign_limit",
                           [named |-> campaigns[cid].name,
                            limit |-> Val(campaigns[cid].maxProductsPerUser)])
          /\ dbUnchanged
     ELSE IF matching # <<>>
     THEN LET existing == matching[1]
              newQuantity == OrElse(existing.quantity, 1) + requestedQty
          IN IF OrElse(product[1].stock, 0) < newQuantity
             THEN /\ resp' = Reply("POST_cart", "insufficient_stock", NoFields)
                  /\ dbUnchanged
             ELSE /\ cartItems' = updateCartItem(existing.id, newQuantity)
                  /\ resp' = Reply("POST_cart", "ok", NoFields)
                  /\ UNCHANGED <<products, employees, campaigns,
                                 campaignProducts, branding, orders, payments,
                                 bulkVars, callVars, inflight, authVars>>
     ELSE /\ Cardinality(cartItems) < MaxCartItems
          /\ cartItems' = cartItems \cup
               {[id |-> FreshCartId, employeeId |-> e, productId |-> pid,
                 selectedColor |-> color, selectedSize |-> size,
                 quantity |-> requestedQty, campaignId |-> cid]}
          /\ resp' = Reply("POST_cart", "ok", NoFields)
          /\ UNCHANGED <<products, employees, campaigns, campaignProducts,
                         branding, orders, payments,
                         bulkVars, callVars, inflight, authVars>>

(***************************************************************************)
(* PUT /api/cart/:id (routes.ts 671-728).                                  *)
(***************************************************************************)
activeCampaignsWithLimit(productId) ==
  {c \in getProductCampaigns(productId) :
     campaigns[c].isActive /\ ~IsNull(campaigns[c].maxProductsPerUser)}

PutCartLimitReached(item, quantity) ==
  {c \in activeCampaignsWithLimit(item.productId) :
     usageByCampaignProducts(item.employeeId, c, item.id) + quantity
       > Val(campaigns[c].maxProductsPerUser)}

PutCart(id, quantity) ==
  LET item == getCartItem(id)
  IN IF quantity < 1
     THEN resp' = Reply("PUT_cart", "invalid_quantity", NoFields) /\ dbUnchanged
     ELSE IF IsNull(item)
     THEN resp' = Reply("PUT_cart", "item_not_found", NoFields) /\ dbUnchanged
     ELSE LET product == getProduct(item[1].productId)
          IN IF IsNull(product)
             THEN resp' = Reply("PUT_cart", "product_not_found", NoFields) /\ dbUnchanged
             ELSE IF OrElse(product[1].stock, 0) < quantity
             THEN resp' = Reply("PUT_cart", "insufficient_stock", NoFields) /\ dbUnchanged
             ELSE IF PutCartLimitReached(item[1], quantity) # {}
             THEN LET c == CHOOSE c \in PutCartLimitReached(item[1], quantity) : TRUE
                  IN /\ resp' = Reply("PUT_cart", "campaign_limit",
                                      [named |-> campaigns[c].name,
                                       limit |-> Val(campaigns[c].maxProductsPerUser)])
                     /\ dbUnchanged
             ELSE /\ cartItems' = updateCartItem(id, quantity)
                  /\ resp' = Reply("PUT_cart", "ok", NoFields)
                  /\ UNCHANGED <<products, employees, campaigns,
                                 campaignProducts, branding, orders, payments,
                                 bulkVars, callVars, inflight, authVars>>

(***************************************************************************)
(* DELETE /api/cart/:id (routes.ts 730-739).                               *)
(***************************************************************************)
DeleteCart(id) ==
  IF IsNull(getCartItem(id))
  THEN resp' = Reply("DELETE_cart", "item_not_found", NoFields) /\ dbUnchanged
  ELSE /\ cartItems' = {c \in cartItems : c.id # id}
       /\ resp' = Reply("DELETE_cart", "ok", NoFields)
       /\ UNCHANGED <<products, employees, campaigns, campaignProducts,
                      branding, orders, payments,
                      bulkVars, callVars, inflight, authVars>>

(***************************************************************************)
(* Points of a cart item: Math.ceil(unitPrice / inrPerPoint) * quantity    *)
(* (routes.ts 775-776, 791-792, 869-870, 1069-1070, 1093-1094).            *)
(***************************************************************************)
\* variant: the ceiling taken once, of the line total
pointsForItemPerLine(product, quantity, inrPerPoint) ==
  ceil(getUnitPriceForQty(product, quantity) * quantity * 100, inrPerPoint)

pointsForItem(product, quantity, inrPerPoint) ==
  ceil(getUnitPriceForQty(product, quantity) * 100, inrPerPoint) * quantity

\* the pre-commit loop: index of the first cart item whose product is
\* missing or has stock < quantity, 0 when there is none
RECURSIVE firstUnavailable(_, _)
firstUnavailable(items, i) ==
  IF i > Len(items) THEN 0
  ELSE LET p == getProduct(items[i].productId)
       IN IF IsNull(p) \/ OrElse(p[1].stock, 0) < items[i].quantity
          THEN i
          ELSE firstUnavailable(items, i + 1)

unavailableName(item) ==
  LET p == getProduct(item.productId)
  IN IF IsNull(p) THEN item.productId ELSE p[1].name

totalPointsRequired(items, inrPerPoint) ==
  SumSeq([i \in 1..Len(items) |->
            pointsForItem(products[items[i].productId], items[i].quantity,
                          inrPerPoint)])

\* copayInr = Math.ceil(deficitPoints * inrPerPoint)
copayInrOf(total, userPoints, inrPerPoint) ==
  ceil((total - userPoints) * inrPerPoint, 100)

\* variant: the order is stored without the payment reference
createOrderWithoutPayment(ords, orderData) ==
  Append(ords, [orderData EXCEPT !.phonepeOrderId = 0]
                 @@ [orderId |-> Len(ords) + 1, status |-> "confirmed"])

\* storage.createOrder (storage.ts 458-478): ORD-<year>-<count + 1>
createOrder(ords, orderData) ==
  Append(ords, orderData @@ [orderId |-> Len(ords) + 1, status |-> "confirmed"])

(***************************************************************************)
(* The commit loop shared by the points and co-pay checkouts (routes.ts    *)
(* 785-810 and 1087-1115): per item, re-read the product, write the        *)
(* decremented stock, create the order.                                    *)
(***************************************************************************)
RECURSIVE commitLoop(_, _, _, _, _)
commitLoop(items, prods, ords, inrPerPoint, payment) ==
  IF items = <<>> THEN [products |-> prods, orders |-> ords]
  ELSE LET item == Head(items)
       IN IF item.productId \notin DOMAIN prods
          THEN commitLoop(Tail(items), prods, ords, inrPerPoint, payment)
          ELSE LET p == prods[item.productId]
                   unitPrice == getUnitPriceForQty(p, item.quantity)
                   usedPoints == ceil(unitPrice * 100, inrPerPoint) * item.quantity
                   order == [employeeId |-> item.employeeId,
                             productId |-> item.productId,
                             selectedColor |-> item.selectedColor,
                             selectedSize |-> item.selectedSize,
                             quantity |-> item.quantity,
                             campaignId |-> item.campaignId,
                             usedPoints |-> usedPoints,
                             unitPrice |-> unitPrice,
                             copayInr |-> payment.copayInr,
                             phonepeOrderId |-> payment.txnId]
               IN commitLoop(Tail(items),
                             [prods EXCEPT ![item.productId].stock =
                                OrElse(p.stock, 0) - item.quantity],
                             createOrder(ords, order), inrPerPoint, payment)

\* variant: the cart is left as it is
clearCartNone(employeeId) == cartItems

clearCart(employeeId) == {c \in cartItems : c.employeeId # employeeId}

\* variant: only the incoming items are counted
selectionLimitReachedCartOnly(employeeId, items) ==
  LET maxSelections == maxSelectionsOf(branding)
  IN /\ maxSelections # 0 - 1
     /\ Len(items) > maxSelections

selectionLimitReached(employeeId, items) ==
  LET maxSelections == maxSelectionsOf(branding)
  IN /\ maxSelections # 0 - 1
     /\ Len(getOrdersByEmployeeId(employeeId)) + Len(items) > maxSelections

\* variant: the balance is not compared with the total
insufficientPointsUnchecked(userPoints, total) == userPoints < 0

insufficientPoints(userPoints, total) == userPoints < total

\* variant: a balance equal to the total is sent to the gateway
sufficientPointsStrict(userPoints, total) == userPoints > total

sufficientPoints(userPoints, total) == userPoints >= total

(***************************************************************************)
(* POST /api/orders (routes.ts 741-821).                                   *)
(***************************************************************************)
PostOrders(e) ==
  LET items == getCartItems(e)
      inrPerPoint == inrPerPointOf(branding)
      bad == firstUnavailable(items, 1)
      total == totalPointsRequired(items, inrPerPoint)
      userPoints == employees[e].points
  IN IF Len(items) = 0
     THEN resp' = Reply("POST_orders", "cart_empty", NoFields) /\ dbUnchanged
     ELSE IF selectionLimitReached(e, items)
     THEN resp' = Reply("POST_orders", "selection_limit", NoFields) /\ dbUnchanged
     ELSE IF bad # 0
     THEN /\ resp' = Reply("POST_orders", "unavailable",
                           [named |-> unavailableName(items[bad])])
          /\ dbUnchanged
     ELSE IF insufficientPoints(userPoints, total)
     THEN resp' = Reply("POST_orders", "insufficient_points", NoFields) /\ dbUnchanged
     ELSE LET done == commitLoop(items, products, orders, inrPerPoint,
                                 [copayInr |-> Null, txnId |-> 0])
          IN /\ Len(orders) + Len(items) <= MaxOrders
             /\ products' = done.products
             /\ orders' = done.orders
             /\ employees' = [employees EXCEPT ![e].points = userPoints - total]
             /\ cartItems' = clearCart(e)
             /\ resp' = Reply("POST_orders", "ok",
                              [created |-> Len(done.orders) - Len(orders)])
             /\ UNCHANGED <<campaigns, campaignProducts, branding, payments,
                            bulkVars, callVars, inflight, authVars>>

(***************************************************************************)
(* POST /api/orders as the event loop runs it: the handler gives up        *)
(* control at every await, and another request may run in between.         *)
(* inflight[r] holds the handler's position and its local variables.  The  *)
(* reads of the validation phase (routes.ts 743-782) are taken in one      *)
(* step; each storage call of the commit (routes.ts 784-813) is one step.  *)
(***************************************************************************)
\* variant: the points are written before the loop
nextStepPointsFirst(pc, i, n) ==
  CASE pc = "validate" -> "updateEmployee"
    [] pc = "updateEmployee" -> "getProduct"
    [] pc = "getProduct" -> "updateProduct"
    [] pc = "updateProduct" -> "countOrders"
    [] pc = "countOrders" -> "insertOrder"
    [] pc = "insertOrder" -> IF i < n THEN "getProduct" ELSE "clearCart"
    [] OTHER -> "idle"

\* the storage call that follows the one at pc, for item i of n (routes.ts
\* 784-813; storage.ts 458-478 for the two calls of createOrder)
nextStep(pc, i, n) ==
  CASE pc = "validate" -> "getProduct"
    [] pc = "getProduct" -> "updateProduct"
    [] pc = "updateProduct" -> "countOrders"
    [] pc = "countOrders" -> "insertOrder"
    [] pc = "insertOrder" -> IF i < n THEN "getProduct" ELSE "updateEmployee"
    [] pc = "updateEmployee" -> "clearCart"
    [] OTHER -> "idle"

\* everything but the named request's state, the tables a checkout writes
\* and the response
restUnchanged ==
  UNCHANGED <<campaigns, campaignProducts, branding, payments,
              bulkVars, callVars, authVars>>

\* routes.ts 743-782: the checks of PostOrders; the handler goes on with
\* the cart, the balance and the total it has read
BeginOrders(r, e) ==
  LET items == getCartItems(e)
      inrPerPoint == inrPerPointOf(branding)
      bad == firstUnavailable(items, 1)
      total == totalPointsRequired(items, inrPerPoint)
      userPoints == employees[e].points
  IN /\ inflight[r].pc = "idle"
     /\ IF Len(items) = 0
        THEN resp' = Reply("POST_orders", "cart_empty", NoFields) /\ dbUnchanged
        ELSE IF selectionLimitReached(e, items)
        THEN resp' = Reply("POST_orders", "selection_limit", NoFields) /\ dbUnchanged
        ELSE IF bad # 0
        THEN /\ resp' = Reply("POST_orders", "unavailable",
                              [named |-> unavailableName(items[bad])])
             /\ dbUnchanged
        ELSE IF insufficientPoints(userPoints, total)
        THEN /\ resp' = Reply("POST_orders", "insufficient_points", NoFields)
             /\ dbUnchanged
        ELSE /\ inflight' =
                  [inflight EXCEPT ![r] =
                     [pc |-> nextStep("validate", 0, Len(items)),
                      employeeId |-> e, cartItems |-> items,
                      inrPerPoint |-> inrPerPoint,
                      totalPointsRequired |-> total, userPoints |-> userPoints,
                      i |-> 1, p |-> Null, next |-> 0, orders |-> <<>>]]
             /\ UNCHANGED <<products, employees, cartItems, orders, resp>>
             /\ restUnchanged

\* the catch block (routes.ts 816-819): the error is answered, nothing is
\* undone
Caught(r) ==
  /\ resp' = Reply("POST_orders", "error", NoFields)
  /\ inflight' = [inflight EXCEPT ![r] = Idle]
  /\ UNCHANGED <<products, employees, cartItems, orders>>
  /\ restUnchanged

\* routes.ts 786-787: const p = await storage.getProduct(...); if (!p) continue
GetProduct(r) ==
  LET q == inflight[r]
      p == getProduct(q.cartItems[q.i].productId)
      n == Len(q.cartItems)
  IN /\ q.pc = "getProduct"
     /\ inflight' =
          [inflight EXCEPT ![r] =
             IF IsNull(p)
             THEN [q EXCEPT !.i = q.i + 1,
                            !.pc = nextStep("insertOrder", q.i, n)]
             ELSE [q EXCEPT !.p = p, !.pc = nextStep("getProduct", q.i, n)]]
     /\ UNCHANGED <<products, employees, cartItems, orders, resp>>
     /\ restUnchanged

\* variant: the quantity is taken only from a stock that covers it
decrementIfCovered(stock, quantity) ==
  IF stock < quantity THEN stock ELSE stock - quantity

\* routes.ts 789: { stock: (p.stock || 0) - item.quantity }
decrement(stock, quantity) == stock - quantity

\* routes.ts 789: await storage.updateProduct(...), with the product read
\* at the step before
UpdateProduct(r, ok) ==
  LET q == inflight[r]
      item == q.cartItems[q.i]
  IN /\ q.pc = "updateProduct"
     /\ IF ~ok THEN Caught(r)
        ELSE /\ products' =
                  [products EXCEPT ![item.productId].stock =
                     decrement(OrElse(q.p[1].stock, 0), item.quantity)]
             /\ inflight' =
                  [inflight EXCEPT ![r].pc =
                     nextStep("updateProduct", q.i, Len(q.cartItems))]
             /\ UNCHANGED <<employees, cartItems, orders, resp>>
             /\ restUnchanged

\* storage.ts 460-465: the count of the year's orders gives the number of
\* the order id
CountOrders(r) ==
  LET q == inflight[r]
  IN /\ q.pc = "countOrders"
     /\ inflight' =
          [inflight EXCEPT ![r].next = Len(orders) + 1,
                           ![r].pc = nextStep("countOrders", q.i, Len(q.cartItems))]
     /\ UNCHANGED <<products, employees, cartItems, orders, resp>>
     /\ restUnchanged

\* orders.orderId is unique (schema: order_id text not null unique)
orderIdTaken(ords, orderId) ==
  \E k \in 1..Len(ords) : ords[k].orderId = orderId

\* storage.ts 467-477: the insert, which the table refuses when the order
\* id is taken; routes.ts 810: orders.push({ order, product: p })
InsertOrder(r, ok) ==
  LET q == inflight[r]
      item == q.cartItems[q.i]
      unitPrice == getUnitPriceForQty(q.p[1], item.quantity)
      usedPoints == ceil(unitPrice * 100, q.inrPerPoint) * item.quantity
      order == [employeeId |-> q.employeeId,
                productId |-> item.productId,
                selectedColor |-> item.selectedColor,
                selectedSize |-> item.selectedSize,
                quantity |-> item.quantity,
                campaignId |-> item.campaignId,
                usedPoints |-> usedPoints,
                unitPrice |-> unitPrice,
                copayInr |-> Null,
                phonepeOrderId |-> 0,
                orderId |-> q.next,
                status |-> "confirmed"]
  IN /\ q.pc = "insertOrder"
     /\ IF ~ok \/ orderIdTaken(orders, q.next) THEN Caught(r)
        ELSE /\ Len(orders) < MaxOrders
             /\ orders' = Append(orders, order)
             /\ inflight' =
                  [inflight EXCEPT ![r] =
                     [q EXCEPT !.orders = Append(@, [order |-> order,
                                                     product |-> q.p[1]]),
                               !.i = q.i + 1,
                               !.pc = nextStep("insertOrder", q.i,
                                               Len(q.cartItems))]]
             /\ UNCHANGED <<products, employees, cartItems, resp>>
             /\ restUnchanged

\* routes.ts 812: { points: userPoints - totalPointsRequired }
UpdateEmployee(r, ok) ==
  LET q == inflight[r]
  IN /\ q.pc = "updateEmployee"
     /\ IF ~ok THEN Caught(r)
        ELSE /\ employees' =
                  [employees EXCEPT ![q.employeeId].points =
                     q.userPoints - q.totalPointsRequired]
             /\ inflight' =
                  [inflight EXCEPT ![r].pc =
                     nextStep("updateEmployee", q.i, Len(q.cartItems))]
             /\ UNCHANGED <<products, cartItems, orders, resp>>
             /\ restUnchanged

\* routes.ts 813-815: clearCart and the response
ClearCart(r, ok) ==
  LET q == inflight[r]
  IN /\ q.pc = "clearCart"
     /\ IF ~ok THEN Caught(r)
        ELSE /\ cartItems' = clearCart(q.employeeId)
             /\ resp' = Reply("POST_orders", "ok", [created |-> Len(q.orders)])
             /\ inflight' = [inflight EXCEPT ![r] = Idle]
             /\ UNCHANGED <<products, employees, orders>>
             /\ restUnchanged

(***************************************************************************)
(* POST /api/orders/create-copay-order (routes.ts 833-963).  The gateway   *)
(* either refuses the pay request or registers the transaction.            *)
(***************************************************************************)
CreateCopayOrder(e, gatewayOk) ==
  LET items == getCartItems(e)
      inrPerPoint == inrPerPointOf(branding)
      bad == firstUnavailable(items, 1)
      total == totalPointsRequired(items, inrPerPoint)
      userPoints == employees[e].points
      copayInr == copayInrOf(total, userPoints, inrPerPoint)
  IN IF Len(items) = 0
     THEN resp' = Reply("create_copay", "cart_empty", NoFields) /\ dbUnchanged
     ELSE IF selectionLimitReached(e, items)
     THEN resp' = Reply("create_copay", "selection_limit", NoFields) /\ dbUnchanged
     ELSE IF bad # 0
     THEN /\ resp' = Reply("create_copay", "unavailable",
                           [named |-> unavailableName(items[bad])])
          /\ dbUnchanged
     ELSE IF sufficientPoints(userPoints, total)
     THEN resp' = Reply("create_copay", "sufficient_points", NoFields) /\ dbUnchanged
     ELSE IF ~gatewayOk
     THEN resp' = Reply("create_copay", "gateway_failed", NoFields) /\ dbUnchanged
     ELSE /\ Len(payments) < MaxTxns
          /\ payments' = Append(payments,
                                [employeeId |-> e, amount |-> copayInr * 100,
                                 code |-> "PAYMENT_PENDING"])
          /\ resp' = Reply("create_copay", "ok",
                           [txnId |-> Len(payments) + 1])
          /\ UNCHANGED <<products, employees, campaigns, campaignProducts,
                         branding, cartItems, orders,
                         bulkVars, callVars, inflight, authVars>>

(***************************************************************************)
(* The payment gateway: the payer completes or abandons a transaction.     *)
(***************************************************************************)
GatewayComplete(txnId, code) ==
  /\ txnId \in 1..Len(payments)
  /\ payments[txnId].code = "PAYMENT_PENDING"
  /\ payments' = [payments EXCEPT ![txnId].code = code]
  /\ resp' = Reply("gateway", code, [txnId |-> txnId])
  /\ UNCHANGED <<products, employees, campaigns, campaignProducts, branding,
                 cartItems, orders,
                 bulkVars, callVars, inflight, authVars>>

\* GET /pg/v1/status/<merchant>/<txn>: response.ok && success && code
paymentSucceeded(txnId, gatewayOk) ==
  /\ gatewayOk
  /\ txnId \in 1..Len(payments)
  /\ payments[txnId].code = "PAYMENT_SUCCESS"

\* variant: a payment of at least the co-pay is accepted
amountMismatchIfLess(paidPaise, copayInr) == paidPaise < copayInr * 100

\* paidAmount = amount / 100; paidAmount !== copayInr
amountMismatch(paidPaise, copayInr) == paidPaise # copayInr * 100

(***************************************************************************)
(* POST /api/orders/verify-copay (routes.ts 996-1126).                     *)
(***************************************************************************)
VerifyCopay(e, txnId, gatewayOk) ==
  LET items == getCartItems(e)
      inrPerPoint == inrPerPointOf(branding)
      bad == firstUnavailable(items, 1)
      total == totalPointsRequired(items, inrPerPoint)
      userPoints == employees[e].points
      copayInr == copayInrOf(total, userPoints, inrPerPoint)
      args == [txnId |-> txnId]
  IN IF ~paymentSucceeded(txnId, gatewayOk)
     THEN resp' = Reply("verify_copay", "payment_not_completed", NoFields) /\ dbUnchanged
     ELSE IF Len(items) = 0
     THEN resp' = Reply("verify_copay", "cart_empty", NoFields) /\ dbUnchanged
     ELSE IF selectionLimitReached(e, items)
     THEN resp' = Reply("verify_copay", "selection_limit", NoFields) /\ dbUnchanged
     ELSE IF bad # 0
     THEN /\ resp' = Reply("verify_copay", "unavailable",
                           [named |-> unavailableName(items[bad])])
          /\ dbUnchanged
     ELSE IF sufficientPoints(userPoints, total)
     THEN resp' = Reply("verify_copay", "sufficient_points", NoFields) /\ dbUnchanged
     ELSE IF amountMismatch(payments[txnId].amount, copayInr)
     THEN /\ resp' = Reply("verify_copay", "amount_mismatch",
                           args @@ [expected |-> copayInr,
                                    paid |-> payments[txnId].amount \div 100])
          /\ dbUnchanged
     ELSE LET done == commitLoop(items, products, orders, inrPerPoint,
                                 [copayInr |-> Some(copayInr), txnId |-> txnId])
          IN /\ Len(orders) + Len(items) <= MaxOrders
             /\ products' = done.products
             /\ orders' = done.orders
             /\ employees' = [employees EXCEPT ![e].points = 0]
             /\ cartItems' = clearCart(e)
             /\ resp' = Reply("verify_copay", "ok",
                              args @@ [created |-> Len(done.orders) - Len(orders),
                                       expected |-> copayInr,
                                       paid |-> payments[txnId].amount \div 100])
             /\ UNCHANGED <<campaigns, campaignProducts, branding, payments,
                            bulkVars, callVars, inflight, authVars>>

(***************************************************************************)
(* Administration: PUT /api/admin/products/:id (routes.ts 1428-1452) and   *)
(* PUT /api/admin/campaigns/:id (routes.ts 1579-1591) write the given      *)
(* fields of the row.                                                      *)
(***************************************************************************)
AdminUpdateProduct(pid, updates) ==
  LET given == "priceSlabs" \in DOMAIN updates
      slabs == normalizePriceSlabs(updates.priceSlabs)
  IN IF given /\ slabs.error # ""
     THEN /\ resp' = Reply("PUT_admin_product", "invalid_slabs",
                           [named |-> slabs.error])
          /\ dbUnchanged
     ELSE /\ products' =
               [products EXCEPT ![pid] =
                  (IF given THEN [priceSlabs |-> slabs.slabs] ELSE NoFields)
                    @@ updates @@ @]
          /\ resp' = Reply("PUT_admin_product", "ok", NoFields)
          /\ UNCHANGED <<employees, campaigns, campaignProducts, branding,
                         cartItems, orders, payments, bulkVars, callVars, inflight, authVars>>

AdminUpdateCampaign(cid, updates) ==
  /\ campaigns' = [campaigns EXCEPT ![cid] = updates @@ @]
  /\ resp' = Reply("PUT_admin_campaign", "ok", NoFields)
  /\ UNCHANGED <<products, employees, campaignProducts, branding, cartItems,
                 orders, payments,
                 bulkVars, callVars, inflight, authVars>>

(***************************************************************************)
(* Bulk buy (routes.ts 168-205, 1870-2234; storage.ts 631-727).            *)
(***************************************************************************)
MaxBulkCartItems == 2
MaxRequests == 1

\* requireBulkBuyAccess (routes.ts 168-205); the allowlist table is empty
requireBulkBuyAccess(e) == employees[e].bulkBuyAllowed = TRUE

\* rows in id order
getBulkBuyCartItems(employeeId) ==
  SortById({c \in bulkBuyCartItems : c.employeeId = employeeId})

FreshBulkCartId == CHOOSE i \in 1..(MaxBulkCartItems + 1) :
                     /\ \A c \in bulkBuyCartItems : c.id # i
                     /\ \A j \in 1..(i - 1) : \E c \in bulkBuyCartItems : c.id = j

\* storage.addBulkBuyCartItem (storage.ts 638-649): four parameters, the
\* fourth is the quantity; selected_size is not written.  The integer
\* column takes a decimal text; null or any other text fails the INSERT.
addBulkBuyCartItem(employeeId, productId, selectedColor, quantity) ==
  bulkBuyCartItems \cup
    {[id |-> FreshBulkCartId, employeeId |-> employeeId, productId |-> productId,
      selectedColor |-> selectedColor, selectedSize |-> NULL,
      quantity |-> Val(Number(quantity))]}

updateBulkBuyCartItem(id, quantity) ==
  {IF c.id = id THEN [c EXCEPT !.quantity = quantity] ELSE c :
     c \in bulkBuyCartItems}

clearBulkBuyCart(employeeId) ==
  {c \in bulkBuyCartItems : c.employeeId # employeeId}

(***************************************************************************)
(* POST /api/bulkbuy/cart (routes.ts 1870-1913).  A new row is written by  *)
(* storage.addBulkBuyCartItem(employeeId, productId, selectedColor,        *)
(* selectedSize, quantity): the size arrives as the quantity parameter and *)
(* the quantity of the request is dropped.                                 *)
(***************************************************************************)
PostBulkBuyCart(e, productId, quantity, selectedColor, selectedSize) ==
  LET p == getProduct(productId)
      current == getBulkBuyCartItems(e)
      existing == SelectSeq(current, LAMBDA it :
                    /\ it.productId = productId
                    /\ it.selectedColor = selectedColor
                    /\ it.selectedSize = selectedSize)
  IN IF ~requireBulkBuyAccess(e)
     THEN resp' = Reply("POST_bulkbuy_cart", "not_enabled", NoFields) /\ dbUnchanged
     ELSE IF quantity < 1
     THEN resp' = Reply("POST_bulkbuy_cart", "invalid_quantity", NoFields) /\ dbUnchanged
     ELSE IF IsNull(p) \/ p[1].isActive = FALSE \/ p[1].bulkBuy # TRUE
     THEN resp' = Reply("POST_bulkbuy_cart", "not_found", NoFields) /\ dbUnchanged
     ELSE IF OrElse(p[1].stock, 0) < quantity
     THEN resp' = Reply("POST_bulkbuy_cart", "insufficient_stock", NoFields) /\ dbUnchanged
     ELSE IF Len(existing) > 0
     THEN LET newQty == OrElse(existing[1].quantity, 1) + quantity
          IN IF OrElse(p[1].stock, 0) < newQty
             THEN /\ resp' = Reply("POST_bulkbuy_cart", "insufficient_stock", NoFields)
                  /\ dbUnchanged
             ELSE /\ bulkBuyCartItems' = updateBulkBuyCartItem(existing[1].id, newQty)
                  /\ resp' = Reply("POST_bulkbuy_cart", "ok", NoFields)
                  /\ UNCHANGED <<products, employees, campaigns, campaignProducts,
                                 branding, cartItems, orders, payments,
                                 bulkBuyRequests, mailLog, callVars, inflight, authVars>>
     ELSE IF IsNull(Number(selectedSize)) \/ selectedSize = ""
     THEN resp' = Reply("POST_bulkbuy_cart", "insert_failed", NoFields) /\ dbUnchanged
     ELSE /\ Cardinality(bulkBuyCartItems) < MaxBulkCartItems
          /\ bulkBuyCartItems' =
               addBulkBuyCartItem(e, productId, selectedColor, selectedSize)
          /\ resp' = Reply("POST_bulkbuy_cart", "ok", NoFields)
          /\ UNCHANGED <<products, employees, campaigns, campaignProducts,
                         branding, cartItems, orders, payments,
                         bulkBuyRequests, mailLog, callVars, inflight, authVars>>

(***************************************************************************)
(* DELETE /api/bulkbuy/cart/:id (routes.ts 1915-1921).                     *)
(***************************************************************************)
DeleteBulkBuyCart(e, id) ==
  IF ~requireBulkBuyAccess(e)
  THEN resp' = Reply("DELETE_bulkbuy_cart", "not_enabled", NoFields) /\ dbUnchanged
  ELSE /\ bulkBuyCartItems' = {c \in bulkBuyCartItems : c.id # id}
       /\ resp' = Reply("DELETE_bulkbuy_cart", "ok", NoFields)
       /\ UNCHANGED <<products, employees, campaigns, campaignProducts, branding,
                      cartItems, orders, payments, bulkBuyRequests, mailLog, callVars, inflight, authVars>>

\* variant: the line is priced at the base price, whatever the quantity
snapshotLineAtBasePrice(p, productId, selectedColor, quantity) ==
  [productId |-> productId, name |-> p.name, selectedColor |-> selectedColor,
   quantity |-> quantity, unitPrice |-> Val(Number(p.price)),
   lineTotal |-> Val(Number(p.price)) * quantity]

(***************************************************************************)
(* emailService.sendMail (server/email-service.ts, not among the sources): *)
(* notification is best effort, a failure to send is logged only.          *)
(***************************************************************************)
sendMail(mailOk) == IF mailOk THEN "sent" ELSE "failed, logged"

\* whether the awaited sendMail rejects
sendMailThrows(mailOk) == FALSE

\* variant: the handler answers with an error unless the mail was sent, as
\* sendOTP does with the result of emailService.sendOTP
notifyReplyChecksResult(sent, threw) ==
  IF threw \/ sent # "sent" THEN "mail_failed" ELSE "ok"

\* the answer of a handler after its awaited sendMail calls (routes.ts
\* 1999-2019, 2138-2162, 2254-2275): the result is not looked at, a
\* rejection ends the handler without its success response
notifyReply(sent, threw) == IF threw THEN "mail_failed" ELSE "ok"

\* one line of the items snapshot (routes.ts 1948-1959, 2090-2104);
\* lineTotal = Number((unitPrice * quantity).toFixed(2)), in rupees
snapshotLine(p, productId, selectedColor, quantity) ==
  LET price == getUnitPriceForQty(p, quantity)
  IN [productId |-> productId, name |-> p.name, selectedColor |-> selectedColor,
      quantity |-> quantity, unitPrice |-> price, lineTotal |-> price * quantity]

\* the loop of POST /api/bulkbuy/checkout (routes.ts 1939-1960): a product
\* that is missing or not for bulk buy is skipped, a short stock ends the
\* request with the product's name
RECURSIVE checkoutLoop(_, _)
checkoutLoop(cart, itemsSnap) ==
  IF cart = <<>> THEN [unavailable |-> NULL, items |-> itemsSnap]
  ELSE LET it == Head(cart)
           p == getProduct(it.productId)
       IN IF IsNull(p) \/ p[1].bulkBuy # TRUE
          THEN checkoutLoop(Tail(cart), itemsSnap)
          ELSE IF OrElse(p[1].stock, 0) < it.quantity
          THEN [unavailable |-> p[1].name, items |-> itemsSnap]
          ELSE checkoutLoop(Tail(cart),
                 Append(itemsSnap, snapshotLine(p[1], it.productId,
                                                it.selectedColor, it.quantity)))

\* variant: the request is stored as already approved
createBulkBuyRequestApproved(employeeId, items, totalAmount) ==
  Append(bulkBuyRequests,
         [requestId |-> Len(bulkBuyRequests) + 1, employeeId |-> employeeId,
          status |-> "approved", items |-> items,
          totalAmount |-> totalAmount * 100, procurementNote |-> NULL])

\* storage.createBulkBuyRequest (storage.ts 668-706): BBR-<year>-<count + 1>,
\* totalAmount kept as decimal(12,2), here in hundredths
createBulkBuyRequest(employeeId, items, totalAmount) ==
  Append(bulkBuyRequests,
         [requestId |-> Len(bulkBuyRequests) + 1, employeeId |-> employeeId,
          status |-> "pending_approval", items |-> items,
          totalAmount |-> totalAmount * 100, procurementNote |-> NULL])

(***************************************************************************)
(* POST /api/bulkbuy/checkout (routes.ts 1928-2020).  The emails are sent  *)
(* after the request is stored and the cart cleared.                       *)
(***************************************************************************)
BulkBuyCheckout(e, mailOk) ==
  LET cart == getBulkBuyCartItems(e)
      done == checkoutLoop(cart, <<>>)
      total == SumSeq([i \in 1..Len(done.items) |-> done.items[i].lineTotal])
  IN IF ~requireBulkBuyAccess(e)
     THEN resp' = Reply("bulkbuy_checkout", "not_enabled", NoFields) /\ dbUnchanged
     ELSE IF Len(cart) = 0
     THEN resp' = Reply("bulkbuy_checkout", "cart_empty", NoFields) /\ dbUnchanged
     ELSE IF done.unavailable # NULL
     THEN /\ resp' = Reply("bulkbuy_checkout", "unavailable",
                           [named |-> done.unavailable])
          /\ dbUnchanged
     ELSE IF Len(done.items) = 0
     THEN resp' = Reply("bulkbuy_checkout", "no_valid_items", NoFields) /\ dbUnchanged
     ELSE /\ Len(bulkBuyRequests) < MaxRequests
          /\ bulkBuyRequests' = createBulkBuyRequest(e, done.items, total)
          /\ bulkBuyCartItems' = clearBulkBuyCart(e)
          /\ resp' = Reply("bulkbuy_checkout",
                           notifyReply(sendMail(mailOk), sendMailThrows(mailOk)),
                           [created |-> Len(bulkBuyRequests) + 1])
          /\ mailLog' = sendMail(mailOk)
          /\ UNCHANGED <<products, employees, campaigns, campaignProducts,
                         branding, cartItems, orders, payments, callVars, inflight, authVars>>

(***************************************************************************)
(* POST /api/bulkbuy/request (routes.ts 2044-2148): one product, no cart.  *)
(***************************************************************************)
BulkBuyRequest(e, productId, quantity, selectedColor, mailOk) ==
  LET p == getProduct(productId)
      line == snapshotLine(p[1], productId, selectedColor, quantity)
  IN IF ~requireBulkBuyAccess(e)
     THEN resp' = Reply("bulkbuy_request", "not_enabled", NoFields) /\ dbUnchanged
     ELSE IF quantity < 1
     THEN resp' = Reply("bulkbuy_request", "invalid_quantity", NoFields) /\ dbUnchanged
     ELSE IF IsNull(p) \/ p[1].isActive = FALSE \/ p[1].bulkBuy # TRUE
     THEN resp' = Reply("bulkbuy_request", "not_found", NoFields) /\ dbUnchanged
     ELSE IF OrElse(p[1].stock, 0) < quantity
     THEN resp' = Reply("bulkbuy_request", "insufficient_stock", NoFields) /\ dbUnchanged
     ELSE /\ Len(bulkBuyRequests) < MaxRequests
          /\ bulkBuyRequests' = createBulkBuyRequest(e, <<line>>, line.lineTotal)
          /\ resp' = Reply("bulkbuy_request",
                           notifyReply(sendMail(mailOk), sendMailThrows(mailOk)),
                           [created |-> Len(bulkBuyRequests) + 1])
          /\ mailLog' = sendMail(mailOk)
          /\ UNCHANGED <<products, employees, campaigns, campaignProducts,
                         branding, cartItems, orders, payments,
                         bulkBuyCartItems, callVars, inflight, authVars>>

\* variant: the row is replaced, columns that are not given take their
\* defaults
updateBulkBuyRequestReplacingRow(id, updates) ==
  [bulkBuyRequests EXCEPT ![id] =
     updates @@ [items |-> <<>>, totalAmount |-> 0] @@ @]

\* storage.updateBulkBuyRequest (storage.ts 720-727)
updateBulkBuyRequest(id, updates) ==
  [bulkBuyRequests EXCEPT ![id] = updates @@ @]

RequestStatuses == {"approved", "rejected", "pending_approval"}

(***************************************************************************)
(* PUT /api/admin/bulkbuy/requests/:id (routes.ts 2218-2275).              *)
(***************************************************************************)
AdminUpdateBulkBuyRequest(id, status, procurementNote, mailOk) ==
  IF status \notin RequestStatuses
  THEN resp' = Reply("PUT_admin_bulkbuy", "invalid_status", NoFields) /\ dbUnchanged
  ELSE IF id \notin 1..Len(bulkBuyRequests)
  THEN resp' = Reply("PUT_admin_bulkbuy", "not_found", NoFields) /\ dbUnchanged
  ELSE /\ bulkBuyRequests' =
            updateBulkBuyRequest(id, [status |-> status,
                                      procurementNote |-> procurementNote])
       /\ resp' = Reply("PUT_admin_bulkbuy",
                        notifyReply(sendMail(mailOk), sendMailThrows(mailOk)),
                        NoFields)
       /\ mailLog' = sendMail(mailOk)
       /\ UNCHANGED <<products, employees, campaigns, campaignProducts, branding,
                      cartItems, orders, payments, bulkBuyCartItems, callVars, inflight, authVars>>

(***************************************************************************)
(* Accounts.  An employee's id stands for the address of the account: e1   *)
(* has an account and an address outside the whitelisted domains, e2 is an *)
(* address of the whitelisted domain, e3 an address with neither.          *)
(***************************************************************************)
\* String(x).trim().toLowerCase() (part_000 7-10, routes.ts 1242)
normalizeEmail(input) ==
  CASE input = NULL -> ""
    [] input = " E1 " -> "e1"
    [] input = "E2" -> "e2"
    [] OTHER -> input

\* /^[^\s@]+@[^\s@]+\.[^\s@]+$/ (part_000 12-15)
isValidEmail(email) == email \in {"e1", "e2", "e3"}

\* the domain_whitelist table (schema, bulk-buy.tsx 740-749): one active row
domainWhitelist ==
  <<[domain |-> "corp", isActive |-> TRUE, autoCreateUser |-> TRUE,
     defaultPoints |-> 100, canLoginWithoutEmployeeId |-> TRUE]>>

\* storage.checkDomainWhitelisted (storage.ts 244-255)
checkDomainWhitelisted(email) ==
  LET emailDomain == IF email = "e2" THEN "corp" ELSE "home"
      matched == {i \in 1..Len(domainWhitelist) :
                    /\ domainWhitelist[i].isActive
                    /\ domainWhitelist[i].domain = emailDomain}
  IN IF matched = {}
     THEN [isWhitelisted |-> FALSE, domain |-> Null]
     ELSE [isWhitelisted |-> TRUE,
           domain |-> Some(domainWhitelist[CHOOSE i \in matched : TRUE])]

\* storage.getEmployeeByEmail (storage.ts 425-428) over a table emps
getEmployeeByEmail(emps, email) ==
  IF email \in DOMAIN emps THEN Some(email) ELSE Null

\* storage.createEmployee (storage.ts 430-433)
createEmployee(emps, email, employeeData) ==
  [e \in DOMAIN emps \cup {email} |->
     IF e = email THEN employeeData ELSE emps[e]]

\* Number(x) of a points value, in hundredths; null stands for NaN
NumberX100(text) ==
  CASE text = "0" -> Some(0)
    [] text = "" -> Some(0)
    [] text = "-5" -> Some(0 - 500)
    [] text = "10.5" -> Some(1050)
    [] text = "100" -> Some(10000)
    [] OTHER -> Null

\* !Number.isFinite(pts) || pts < 0 (routes.ts 1333)
invalidPoints(pts) == ~isFinite(pts) \/ Val(pts) < 0

(***************************************************************************)
(* PUT /api/admin/employees/:id (routes.ts 1307-1367); of the editable     *)
(* fields the body carries points and bulkBuyAllowed (a JSON boolean,      *)
(* written "true" or "false"), NULL when absent.                           *)
(***************************************************************************)
AdminUpdateEmployee(id, body) ==
  LET pts == NumberX100(body.points)
      pointsUpdate == IF body.points = NULL THEN <<>>
                      ELSE <<Val(pts) \div 100>>  \* Math.floor(pts)
      allowedUpdate == IF body.bulkBuyAllowed = NULL THEN <<>>
                       ELSE <<body.bulkBuyAllowed = "true">>
  IN IF body.points # NULL /\ invalidPoints(pts)
     THEN resp' = Reply("PUT_admin_employee", "invalid_points", NoFields) /\ dbUnchanged
     ELSE IF pointsUpdate = <<>> /\ allowedUpdate = <<>>
     THEN resp' = Reply("PUT_admin_employee", "no_fields", NoFields) /\ dbUnchanged
     ELSE IF id \notin DOMAIN employees
     THEN resp' = Reply("PUT_admin_employee", "not_found", NoFields) /\ dbUnchanged
     ELSE /\ employees' =
               [employees EXCEPT ![id] =
                  [points |-> IF pointsUpdate = <<>> THEN @.points
                              ELSE pointsUpdate[1],
                   bulkBuyAllowed |-> IF allowedUpdate = <<>> THEN @.bulkBuyAllowed
                                      ELSE allowedUpdate[1]]]
          /\ resp' = Reply("PUT_admin_employee", "ok", NoFields)
          /\ UNCHANGED <<products, campaigns, campaignProducts, branding, cartItems,
                         orders, payments, bulkVars, callVars, inflight, authVars>>

\* toBoolLoose (routes.ts 1229-1238); NULL stands for undefined
toBoolLoose(v) ==
  CASE v \in {"1", "true", "yes", "y"} -> "true"
    [] v \in {"0", "false", "no", "n"} -> "false"
    [] OTHER -> NULL

\* one row of the sheet (routes.ts 1240-1296): the employees table after it
\* and whether the row was inserted
uploadRow(emps, r) ==
  LET rawEmail == normalizeEmail(r.email)
      exists == getEmployeeByEmail(emps, rawEmail)
      bulkBuyAllowed == toBoolLoose(r.bulkBuyAllowed)
      pts == Number(r.points)
      skipped == [employees |-> emps, inserted |-> 0]
      domainCheck == checkDomainWhitelisted(rawEmail)
  IN IF rawEmail = "" \/ ~isValidEmail(rawEmail) THEN skipped
     ELSE IF /\ ~domainCheck.isWhitelisted
             /\ ~IsNull(domainCheck.domain)
             /\ Val(domainCheck.domain).canLoginWithoutEmployeeId = FALSE
     THEN skipped
     ELSE IF ~IsNull(exists)
     THEN [employees |->
             [emps EXCEPT ![Val(exists)] =
                [points |-> IF isFinite(pts) THEN Val(pts) ELSE @.points,
                 bulkBuyAllowed |-> IF bulkBuyAllowed # NULL
                                    THEN bulkBuyAllowed = "true"
                                    ELSE @.bulkBuyAllowed]],
           inserted |-> 0]
     ELSE IF r.firstName = "" \/ r.lastName = "" THEN skipped
     ELSE [employees |->
             createEmployee(emps, rawEmail,
                            [points |-> IF isFinite(pts) THEN Val(pts) ELSE 0,
                             bulkBuyAllowed |-> bulkBuyAllowed = "true"]),
           inserted |-> 1]

RECURSIVE uploadRows(_, _, _)
uploadRows(emps, rows, inserted) ==
  IF rows = <<>> THEN [employees |-> emps, inserted |-> inserted]
  ELSE LET done == uploadRow(emps, Head(rows))
       IN uploadRows(done.employees, Tail(rows), inserted + done.inserted)

(***************************************************************************)
(* POST /api/admin/employees/bulk (routes.ts 1223-1304).                   *)
(***************************************************************************)
BulkUploadEmployees(rows) ==
  LET done == uploadRows(employees, rows, 0)
  IN /\ employees' = done.employees
     /\ resp' = Reply("bulk_employees", "ok", [created |-> done.inserted])
     /\ UNCHANGED <<products, campaigns, campaignProducts, branding, cartItems,
                    orders, payments, bulkVars, callVars, inflight, authVars>>

(***************************************************************************)
(* Login by one-time password (part_000: auth-otp; storage.ts 515-526,     *)
(* 554-574).  An OTP row keeps its address, its code, whether it is used   *)
(* (usedAt) and whether its ten minutes have passed.                       *)
(***************************************************************************)
MaxOtps == 2
MaxSessions == 2
Codes == {"111111", "222222"}

\* getLoginPolicy (part_000 62-77)
getLoginPolicy(email) ==
  LET emp == getEmployeeByEmail(employees, email)
      domainCheck == checkDomainWhitelisted(email)
      exists == ~IsNull(emp)
      domainWhitelisted == domainCheck.isWhitelisted
      domainConfig == domainCheck.domain
  IN [emp |-> emp, exists |-> exists, domainConfig |-> domainConfig,
      allowLogin |-> exists \/ domainWhitelisted,
      canAutoCreate |-> /\ ~exists
                        /\ domainWhitelisted
                        /\ ~IsNull(domainConfig)
                        /\ Val(domainConfig).autoCreateUser]

\* the account the handler goes on with: the employee's, or the one it
\* creates for a whitelisted address (part_000 139-156, 231-246)
accountOf(policy, email) ==
  IF policy.exists THEN [employees |-> employees, user |-> policy.emp]
  ELSE IF policy.canAutoCreate
  THEN [employees |->
          createEmployee(employees, email,
                         [points |-> OrElse(Val(policy.domainConfig).defaultPoints, 0),
                          bulkBuyAllowed |-> FALSE]),
        user |-> Some(email)]
  ELSE [employees |-> employees, user |-> Null]

\* storage.getLastOTPForEmail (storage.ts 563-571): the latest row of the
\* address whose usedAt is null
getLastOTPForEmail(email) ==
  LET mine == {i \in 1..Len(otps) : otps[i].email = email /\ ~otps[i].used}
  IN IF mine = {} THEN Null
     ELSE Some(CHOOSE i \in mine : \A j \in mine : j <= i)

\* markOtpUsed (part_000 49-55): storage.markOTPAsUsed (storage.ts 573-575),
\* a failure of which is logged and swallowed
markOtpUsed(otpId, markOk) ==
  IF markOk THEN [otps EXCEPT ![otpId].used = TRUE] ELSE otps

authUnchanged ==
  UNCHANGED <<products, campaigns, campaignProducts, branding, cartItems,
              orders, payments, bulkVars, callVars, inflight>>

\* sendOTP (part_000 118-192), with storage.createOTP (storage.ts 555-561)
SendOTP(rawEmail, code, emailSent) ==
  LET email == normalizeEmail(rawEmail)
      policy == getLoginPolicy(email)
      account == accountOf(policy, email)
  IN IF rawEmail = NULL
     THEN resp' = Reply("send_otp", "email_required", NoFields) /\ dbUnchanged
     ELSE IF email = "" \/ ~isValidEmail(email)
     THEN resp' = Reply("send_otp", "invalid_email", NoFields) /\ dbUnchanged
     ELSE IF ~policy.allowLogin
     THEN resp' = Reply("send_otp", "not_authorized", NoFields) /\ dbUnchanged
     ELSE IF IsNull(account.user)
     THEN resp' = Reply("send_otp", "not_found", NoFields) /\ dbUnchanged
     ELSE /\ Len(otps) < MaxOtps
          /\ employees' = account.employees
          /\ otps' = Append(otps, [email |-> email, code |-> code,
                                    used |-> FALSE, expired |-> FALSE])
          /\ resp' = Reply("send_otp",
                           IF emailSent THEN "ok" ELSE "mail_failed", NoFields)
          /\ UNCHANGED sessions
          /\ authUnchanged

\* verifyOTP (part_000 197-270)
VerifyOTP(rawEmail, code, markOk) ==
  LET email == normalizeEmail(rawEmail)
      policy == getLoginPolicy(email)
      otpRec == getLastOTPForEmail(email)
      account == accountOf(policy, email)
  IN IF email = "" \/ code = ""
     THEN resp' = Reply("verify_otp", "email_and_code_required", NoFields)
          /\ dbUnchanged
     ELSE IF ~policy.allowLogin
     THEN resp' = Reply("verify_otp", "not_authorized", NoFields) /\ dbUnchanged
     ELSE IF IsNull(otpRec)
     THEN resp' = Reply("verify_otp", "no_otp", NoFields) /\ dbUnchanged
     ELSE IF otps[Val(otpRec)].expired
     THEN resp' = Reply("verify_otp", "expired", NoFields) /\ dbUnchanged
     ELSE IF otps[Val(otpRec)].code # code
     THEN resp' = Reply("verify_otp", "invalid_otp", NoFields) /\ dbUnchanged
     ELSE IF IsNull(account.user)
     THEN /\ otps' = markOtpUsed(Val(otpRec), markOk)
          /\ resp' = Reply("verify_otp", "not_found", NoFields)
          /\ UNCHANGED <<employees, sessions>>
          /\ authUnchanged
     ELSE /\ Len(sessions) < MaxSessions
          /\ otps' = markOtpUsed(Val(otpRec), markOk)
          /\ employees' = account.employees
          /\ sessions' = Append(sessions, [employeeId |-> Val(account.user)])
          /\ resp' = Reply("verify_otp", "ok", NoFields)
          /\ authUnchanged

\* the expiresAt of an OTP row passes
OtpExpires(id) ==
  /\ id \in 1..Len(otps)
  /\ ~otps[id].expired
  /\ otps' = [otps EXCEPT ![id].expired = TRUE]
  /\ UNCHANGED <<employees, sessions, resp>>
  /\ authUnchanged

(***************************************************************************)
(* Requests.  The storefront offers the mug plain or red, alone or under   *)
(* the campaign, and the pen; the administrator withdraws or restocks the  *)
(* pen, and switches the campaign or its cap off.                          *)
(***************************************************************************)
CartRequests ==
  {<<"p1", NULL, NULL>>, <<"p1", NULL, "c1">>, <<"p1", "red", NULL>>,
   <<"p2", NULL, NULL>>}

CopayCartRequests == {<<"p1", NULL, NULL>>, <<"p2", NULL, NULL>>}

ProductUpdates == {<<"p2", [isActive |-> FALSE]>>, <<"p2", [stock |-> 1]>>}

CampaignUpdates == {<<"c1", [isActive |-> FALSE]>>,
                    <<"c1", [maxProductsPerUser |-> Null]>>}

CartNext ==
  \/ \E e \in Employees, r \in CartRequests, q \in Quantities :
       PostCart(e, r[1], r[2], NULL, q, r[3])
  \/ \E id \in 1..MaxCartItems, q \in 0..MaxQty : PutCart(id, q)
  \/ \E id \in 1..MaxCartItems : DeleteCart(id)
  \/ \E e \in Employees : PostOrders(e)

(***************************************************************************)
(* Requests are served one at a time: every action is one whole handler.   *)
(* Spec: cart and points checkout while the catalogue is administered.     *)
(***************************************************************************)
Next ==
  \/ CartNext
  \/ \E u \in ProductUpdates : AdminUpdateProduct(u[1], u[2])

Spec == Init /\ [][Next]_vars

(***************************************************************************)
(* SpecCampaign: cart and points checkout while the campaign is            *)
(* administered.                                                           *)
(***************************************************************************)
NextCampaign ==
  \/ CartNext
  \/ \E u \in CampaignUpdates : AdminUpdateCampaign(u[1], u[2])

SpecCampaign == Init /\ [][NextCampaign]_vars

(***************************************************************************)
(* SpecCopay: cart, points checkout and co-pay checkout through the        *)
(* payment gateway.                                                        *)
(***************************************************************************)
NextCopay ==
  \/ \E e \in Employees, r \in CopayCartRequests, q \in Quantities :
       PostCart(e, r[1], r[2], NULL, q, r[3])
  \/ \E id \in 1..MaxCartItems : DeleteCart(id)
  \/ \E e \in Employees : PostOrders(e)
  \/ \E e \in Employees, ok \in BOOLEAN : CreateCopayOrder(e, ok)
  \/ \E txnId \in 1..MaxTxns, code \in {"PAYMENT_SUCCESS", "PAYMENT_ERROR"} :
       GatewayComplete(txnId, code)
  \/ \E e \in Employees, txnId \in 1..MaxTxns, ok \in BOOLEAN :
       VerifyCopay(e, txnId, ok)

SpecCopay == Init /\ [][NextCopay]_vars

(***************************************************************************)
(* SpecBulkBuy: the bulk-buy cart and the two ways of submitting a         *)
(* request, while the catalogue is edited.                                 *)
(***************************************************************************)
BulkCartRequests ==
  {<<"p1", NULL, "2">>, <<"p2", NULL, "2">>, <<"p2", NULL, NULL>>}

BulkProductUpdates ==
  {<<"p1", [bulkBuy |-> FALSE]>>,
   <<"p2", [name |-> "Pencil", price |-> "99", stock |-> 2,
            priceSlabs |->
              [isArray |-> TRUE,
               items |-> <<[minQty |-> "1", maxQty |-> "", price |-> " 80 "]>>]]>>,
   <<"p2", [priceSlabs |->
              [isArray |-> TRUE,
               items |-> <<[minQty |-> "1", maxQty |-> "", price |-> "abc"]>>]]>>}

NextBulkBuy ==
  \/ \E e \in Employees, r \in BulkCartRequests, q \in 0..MaxQty :
       PostBulkBuyCart(e, r[1], q, r[2], r[3])
  \/ \E e \in Employees, id \in 1..MaxBulkCartItems : DeleteBulkBuyCart(e, id)
  \/ \E e \in Employees, mailOk \in BOOLEAN : BulkBuyCheckout(e, mailOk)
  \/ \E e \in Employees, pid \in Products, q \in 0..MaxQty, mailOk \in BOOLEAN :
       BulkBuyRequest(e, pid, q, NULL, mailOk)
  \/ \E u \in BulkProductUpdates : AdminUpdateProduct(u[1], u[2])

\* one rupee a point, an employee with points
InitBulkBuy ==
  /\ Init
  /\ IsNull(branding.inrPerPoint)
  /\ \A e \in Employees : employees[e].points > 0

SpecBulkBuy == InitBulkBuy /\ [][NextBulkBuy]_vars

(***************************************************************************)
(* SpecProcurement: requests are submitted and the administrator decides   *)
(* them, while the catalogue is edited.                                    *)
(***************************************************************************)
NextProcurement ==
  \/ \E e \in Employees, pid \in Products, q \in 0..MaxQty, mailOk \in BOOLEAN :
       BulkBuyRequest(e, pid, q, NULL, mailOk)
  \/ \E id \in 1..MaxRequests,
        status \in RequestStatuses \cup {"cancelled"},
        note \in {NULL, "checked"}, mailOk \in BOOLEAN :
       AdminUpdateBulkBuyRequest(id, status, note, mailOk)
  \/ \E u \in BulkProductUpdates : AdminUpdateProduct(u[1], u[2])

SpecProcurement == InitBulkBuy /\ [][NextProcurement]_vars

(***************************************************************************)
(* SpecPricing: the pen, priced by slab, goes through every path that      *)
(* stamps a unit price: points checkout, co-pay checkout, bulk-buy         *)
(* checkout and the direct bulk-buy request, while its price list is       *)
(* edited.                                                                 *)
(***************************************************************************)
PriceUpdates ==
  {<<"p2", [price |-> "99",
            priceSlabs |->
              [isArray |-> TRUE,
               items |-> <<[minQty |-> "2", maxQty |-> "", price |-> " 80 "],
                           [minQty |-> "1", maxQty |-> "1", price |-> "100"]>>]]>>}

NextPricing ==
  \/ \E e \in Employees, q \in Quantities : PostCart(e, "p2", NULL, NULL, q, NULL)
  \/ \E e \in Employees : PostOrders(e)
  \/ \E e \in Employees : CreateCopayOrder(e, TRUE)
  \/ \E txnId \in 1..MaxTxns : GatewayComplete(txnId, "PAYMENT_SUCCESS")
  \/ \E e \in Employees, txnId \in 1..MaxTxns : VerifyCopay(e, txnId, TRUE)
  \/ \E e \in Employees, q \in Quantities : PostBulkBuyCart(e, "p2", q, NULL, "2")
  \/ \E e \in Employees : BulkBuyCheckout(e, TRUE)
  \/ \E e \in Employees, q \in Quantities : BulkBuyRequest(e, "p2", q, NULL, TRUE)
  \/ \E u \in PriceUpdates : AdminUpdateProduct(u[1], u[2])

SpecPricing == Init /\ [][NextPricing]_vars

(***************************************************************************)
(* SpecResolver: getUnitPriceForQty is called on a product snapshot (base  *)
(* price 120, up to MaxSlabs stored slabs, in any order, with any price    *)
(* text) and a quantity from 0 to MaxResolveQty.                           *)
(***************************************************************************)
MaxSlabs == 2
MaxResolveQty == 10

StoredSlabs ==
  [minQty : {1, 10}, maxQty : {Null, Some(9), Some(10)},
   price : {"100", "80", "abc", "-5"}]

SlabLists(S) == UNION {[1..n -> S] : n \in 0..MaxSlabs}

ProductSnapshots == [price : {"120"}, priceSlabs : SlabLists(StoredSlabs)]

\* no rows: the functions are called on their own
StoreAtRest ==
  /\ products = <<>>
  /\ employees = <<>>
  /\ campaigns = <<>>
  /\ campaignProducts = {}
  /\ branding = [inrPerPoint |-> Null, maxSelectionsPerUser |-> Null]
  /\ cartItems = {}
  /\ orders = <<>>
  /\ payments = <<>>
  /\ resp = NoResp
  /\ bulkBuyCartItems = {}
  /\ bulkBuyRequests = <<>>
  /\ mailLog = "none"
  /\ inflight = [r \in Requests |-> Idle]
  /\ otps = <<>>
  /\ sessions = <<>>

\* a call getUnitPriceForQty(priceArg, qty): the function has no throw, it
\* returns a number for every quantity
GetUnitPriceForQty(qty) ==
  /\ priceResult' = [qty |-> qty, returned |-> Some(getUnitPriceForQty(priceArg, qty))]
  /\ UNCHANGED <<products, employees, campaigns, campaignProducts, branding,
                 cartItems, orders, payments, resp, bulkVars,
                 slabsArg, slabsResult, priceArg, inflight, authVars>>

InitResolver ==
  /\ StoreAtRest
  /\ slabsArg = NoSlabs
  /\ slabsResult = NotCalled
  /\ priceArg \in ProductSnapshots
  /\ priceResult = NoPrice

NextResolver == \E qty \in 0..MaxResolveQty : GetUnitPriceForQty(qty)

SpecResolver == InitResolver /\ [][NextResolver]_vars

(***************************************************************************)
(* SpecNormalizer: normalizePriceSlabs is called on the priceSlabs value   *)
(* of a request body: something that is no array, or an array of up to     *)
(* MaxSlabs records with the texts an administrator can type.              *)
(***************************************************************************)
RawSlabs ==
  [minQty : {"1", "5", "10", "0"},
   maxQty : {NULL, "", "4", "10", "15", "abc"},
   price : {"100", "abc", " "}]

RawInputs ==
  {NoSlabs} \cup {[isArray |-> TRUE, items |-> l] : l \in SlabLists(RawSlabs)}

NormalizePriceSlabs ==
  /\ slabsResult' = normalizePriceSlabs(slabsArg)
  /\ UNCHANGED <<products, employees, campaigns, campaignProducts, branding,
                 cartItems, orders, payments, resp, bulkVars,
                 slabsArg, priceArg, priceResult, inflight, authVars>>

InitNormalizer ==
  /\ StoreAtRest
  /\ slabsArg \in RawInputs
  /\ slabsResult = NotCalled
  /\ priceArg = NoProduct
  /\ priceResult = NoPrice

NextNormalizer == NormalizePriceSlabs

SpecNormalizer == InitNormalizer /\ [][NextNormalizer]_vars

(***************************************************************************)
(* Vocabulary of the properties.                                           *)
(***************************************************************************)
newOrders == SubSeq(orders', Len(orders) + 1, Len(orders'))

dbSame == UNCHANGED <<products, employees, campaigns, campaignProducts,
                      branding, cartItems, orders>>

\* the least integer n with n * b >= a, for a >= 0 and b > 0
LeastMultiple(a, b) ==
  CHOOSE n \in 0..((a \div b) + 1) : n * b >= a /\ (n = 0 \/ (n - 1) * b < a)

\* points of one unit at the configured rate, rounded up per unit
unitPoints(item) ==
  LeastMultiple(getUnitPriceForQty(products[item.productId], item.quantity) * 100,
                inrPerPointOf(branding))

itemPoints(item) == unitPoints(item) * item.quantity

RECURSIVE cartPoints(_)
cartPoints(items) ==
  IF items = <<>> THEN 0 ELSE itemPoints(Head(items)) + cartPoints(Tail(items))

\* rupees that cover a deficit of points, rounded up
copayFor(e) ==
  LeastMultiple((cartPoints(getCartItems(e)) - employees[e].points)
                  * inrPerPointOf(branding), 100)

(***************************************************************************)
(* C1.  In the three paths that charge points (POST /api/orders,           *)
(* create-copay-order, verify-copay) a cart item costs                     *)
(* ceil(unitPrice / inrPerPoint) * quantity, the ceiling taken per unit;   *)
(* the total is the sum over the cart items, and every order is stamped    *)
(* with the per-item value.                                                *)
(***************************************************************************)
C1_PerUnitCeiling ==
  [][\A e \in Employees :
       LET items == getCartItems(e)
       IN /\ (PostOrders(e) /\ resp'.status = "ok") =>
               /\ employees'[e].points = employees[e].points - cartPoints(items)
               /\ Len(newOrders) = Len(items)
               /\ \A i \in 1..Len(items) :
                    newOrders[i].usedPoints = itemPoints(items[i])
          /\ \A ok \in BOOLEAN :
               (CreateCopayOrder(e, ok) /\ resp'.status = "ok") =>
                 payments'[Len(payments')].amount = 100 * copayFor(e)
          /\ \A ok \in BOOLEAN, txnId \in 1..MaxTxns :
               (VerifyCopay(e, txnId, ok) /\ resp'.status = "ok") =>
                 /\ resp'.expected = copayFor(e)
                 /\ Len(newOrders) = Len(items)
                 /\ \A i \in 1..Len(items) :
                      newOrders[i].usedPoints = itemPoints(items[i])]_vars

\* an order of two units whose per-unit ceiling exceeds the ceiling of the line
C1_Witness ==
  \E i \in 1..Len(orders) :
    /\ orders[i].quantity >= 2
    /\ orders[i].usedPoints * inrPerPointOf(branding)
         >= orders[i].unitPrice * orders[i].quantity * 100 + inrPerPointOf(branding)

(***************************************************************************)
(* C2.  A points checkout that succeeds creates exactly one order per cart *)
(* item, lowers each product's stock by the quantity ordered, lowers the   *)
(* employee's points by totalPointsRequired, which is the sum of the       *)
(* usedPoints of the new orders, and empties the employee's cart.          *)
(***************************************************************************)
orderedQty(items, pid) ==
  SumSeq([i \in 1..Len(items) |->
            IF items[i].productId = pid THEN items[i].quantity ELSE 0])

C2_PointsCheckoutEffect ==
  [][\A e \in Employees :
       LET items == getCartItems(e)
       IN (PostOrders(e) /\ resp'.status = "ok") =>
            /\ Len(items) > 0
            /\ Len(orders') = Len(orders) + Len(items)
            /\ SubSeq(orders', 1, Len(orders)) = orders
            /\ \A i \in 1..Len(items) :
                 /\ newOrders[i].employeeId = e
                 /\ newOrders[i].productId = items[i].productId
                 /\ newOrders[i].quantity = items[i].quantity
                 /\ newOrders[i].selectedColor = items[i].selectedColor
                 /\ newOrders[i].campaignId = items[i].campaignId
            /\ \A p \in Products :
                 products'[p].stock = products[p].stock - orderedQty(items, p)
            /\ employees'[e].points
                 = employees[e].points
                   - totalPointsRequired(items, inrPerPointOf(branding))
            /\ employees[e].points - employees'[e].points
                 = SumSeq([i \in 1..Len(newOrders) |-> newOrders[i].usedPoints])
            /\ {c \in cartItems' : c.employeeId = e} = {}]_vars

\* a checkout of a cart of two items has just succeeded
C2_Witness ==
  /\ resp.op = "POST_orders" /\ resp.status = "ok" /\ resp.created = 2
  /\ cartItems = {}
  /\ Len(orders) >= 2

(***************************************************************************)
(* C3.  POST /api/orders never succeeds when the employee's points are     *)
(* below totalPointsRequired, and answers "Insufficient points" when the   *)
(* cart, the selection limit and the products pass; whenever it rejects,   *)
(* no stock, order, points balance or cart item changes.                   *)
(***************************************************************************)
C3_RejectsWithoutEffect ==
  [][\A e \in Employees :
       LET items == getCartItems(e)
           short == employees[e].points < cartPoints(items)
       IN PostOrders(e) =>
            /\ short => resp'.status # "ok"
            /\ (/\ short
                /\ Len(items) > 0
                /\ ~selectionLimitReached(e, items)
                /\ \A i \in 1..Len(items) :
                     products[items[i].productId].stock >= items[i].quantity)
                 => resp'.status = "insufficient_points"
            /\ resp'.status # "ok" =>
                 /\ resp'.status \in {"cart_empty", "selection_limit",
                                      "unavailable", "insufficient_points"}
                 /\ dbSame]_vars

\* a checkout of a non-empty cart was refused for lack of points
C3_Witness ==
  /\ resp.op = "POST_orders" /\ resp.status = "insufficient_points"
  /\ cartItems # {}
  /\ \E e \in Employees : employees[e].points < cartPoints(getCartItems(e))

(***************************************************************************)
(* C4.  Every checkout path rejects when a cart item's product does not    *)
(* exist, is not active or has stock below the item's quantity: a cart     *)
(* item whose product has isActive = false never produces an order.        *)
(***************************************************************************)
C4_InactiveNeverOrdered ==
  [][\A e \in Employees :
       LET items == getCartItems(e)
       IN (/\ resp'.op \in {"POST_orders", "verify_copay"}
           /\ resp'.status = "ok"
           /\ {c \in cartItems' : c.employeeId = e} = {})
          => \A i \in 1..Len(items) :
               /\ items[i].productId \in DOMAIN products
               /\ products[items[i].productId].isActive
               /\ products[items[i].productId].stock >= items[i].quantity]_vars

(***************************************************************************)
(* C5.  At checkout the campaign limit is evaluated for every cart item    *)
(* that carries a campaignId: no order is created when the employee's      *)
(* usage of the campaign (orders and cart) exceeds maxProductsPerUser.     *)
(***************************************************************************)
C5_CheckoutEnforcesCampaignCap ==
  [][\A e \in Employees :
       LET items == getCartItems(e)
       IN (/\ resp'.op \in {"POST_orders", "verify_copay"}
           /\ resp'.status = "ok"
           /\ {c \in cartItems' : c.employeeId = e} = {})
          => \A i \in 1..Len(items) :
               LET cid == items[i].campaignId
               IN (cid # NULL /\ ~IsNull(campaigns[cid].maxProductsPerUser))
                    => usageByCampaignId(e, cid)
                         <= Val(campaigns[cid].maxProductsPerUser)]_vars

(***************************************************************************)
(* Usage of a campaign by explicit campaignId: the quantities of the       *)
(* employee's orders and cart items that carry the campaign's id, the cart *)
(* item `excluded` left out (0 excludes none).                             *)
(***************************************************************************)
RECURSIVE SumQuantity(_)
SumQuantity(S) ==
  IF S = {} THEN 0
  ELSE LET x == CHOOSE y \in S : TRUE
       IN x.quantity + SumQuantity(S \ {x})

explicitUsage(e, cid, excluded) ==
  SumQuantity({[n |-> i, quantity |-> orders[i].quantity] :
                 i \in {j \in 1..Len(orders) :
                          orders[j].employeeId = e /\ orders[j].campaignId = cid}})
  + SumQuantity({c \in cartItems :
                   c.employeeId = e /\ c.campaignId = cid /\ c.id # excluded})

(***************************************************************************)
(* C6 (as claimed).  POST /api/cart with a campaignId: a null              *)
(* maxProductsPerUser never limits the add; otherwise the add passes the   *)
(* campaign limit exactly when usage + q <= maxProductsPerUser, usage      *)
(* being the explicit-campaignId usage over orders and cart.               *)
(***************************************************************************)
C6_AddAllowedIffWithinCap ==
  [][\A e \in Employees, pid \in Products, color \in Colors, q \in Quantities,
        cid \in Campaigns :
       PostCart(e, pid, color, NULL, q, cid) =>
         IF IsNull(campaigns[cid].maxProductsPerUser)
         THEN resp'.status # "campaign_limit"
         ELSE /\ explicitUsage(e, cid, 0) + q > Val(campaigns[cid].maxProductsPerUser)
                   => resp'.status # "ok"
              /\ explicitUsage(e, cid, 0) + q <= Val(campaigns[cid].maxProductsPerUser)
                   => resp'.status # "campaign_limit"]_vars

(***************************************************************************)
(* C6 (amended).  POST /api/cart with a campaignId: when the campaign is   *)
(* not active or its maxProductsPerUser is null the campaign limit never   *)
(* rejects the add; for an active campaign with a cap the add passes the   *)
(* limit exactly when usage + q <= maxProductsPerUser, and a rejection     *)
(* names the campaign and the cap.                                         *)
(***************************************************************************)
C6_ActiveCampaignCap ==
  [][\A e \in Employees, pid \in Products, color \in Colors, q \in Quantities,
        cid \in Campaigns :
       PostCart(e, pid, color, NULL, q, cid) =>
         IF ~campaigns[cid].isActive \/ IsNull(campaigns[cid].maxProductsPerUser)
         THEN resp'.status # "campaign_limit"
         ELSE /\ explicitUsage(e, cid, 0) + q > Val(campaigns[cid].maxProductsPerUser)
                   => resp'.status \in {"campaign_limit", "insufficient_stock"}
              /\ explicitUsage(e, cid, 0) + q <= Val(campaigns[cid].maxProductsPerUser)
                   => resp'.status # "campaign_limit"
              /\ resp'.status = "campaign_limit"
                   => /\ resp'.named = campaigns[cid].name
                      /\ resp'.limit = Val(campaigns[cid].maxProductsPerUser)
                      /\ dbSame]_vars

\* an add was refused at the cap with usage made of an order and a cart item
C6_Witness ==
  /\ resp.op = "POST_cart" /\ resp.status = "campaign_limit"
  /\ \E i \in 1..Len(orders) : orders[i].campaignId = "c1"
  /\ \E c \in cartItems : c.campaignId = "c1"
  /\ campaigns["c1"].isActive
  /\ explicitUsage("e1", "c1", 0) = Val(campaigns["c1"].maxProductsPerUser)

(***************************************************************************)
(* C7.  PUT /api/cart/:id counts, for a campaign, only the orders and cart *)
(* items whose campaignId is the campaign's id, the updated item excluded; *)
(* orders and items without campaignId are not counted because their       *)
(* product is linked to the campaign; the update passes the limit exactly  *)
(* when that usage plus the new quantity is <= maxProductsPerUser.         *)
(***************************************************************************)
limitedCampaignsOf(item) ==
  {c \in Campaigns :
     /\ campaigns[c].isActive
     /\ ~IsNull(campaigns[c].maxProductsPerUser)
     /\ (c = item.campaignId \/ <<c, item.productId>> \in campaignProducts)}

C7_UpdateCountsExplicitCampaignId ==
  [][\A id \in 1..MaxCartItems, q \in Quantities :
       (PutCart(id, q) /\ ~IsNull(getCartItem(id))) =>
         LET item == getCartItem(id)[1]
             over == {c \in limitedCampaignsOf(item) :
                        explicitUsage(item.employeeId, c, id) + q
                          > Val(campaigns[c].maxProductsPerUser)}
         IN /\ over # {} => resp'.status # "ok"
            /\ over = {} => resp'.status # "campaign_limit"]_vars

(***************************************************************************)
(* C8.  With maxSelectionsPerUser = m and m # -1, the points and co-pay    *)
(* checkouts answer "Selection limit reached" when the employee's orders   *)
(* plus the cart items exceed m, so an employee never has more than m      *)
(* orders; with m = -1 the selection limit never rejects.                  *)
(***************************************************************************)
selectionsExceeded(e) ==
  Cardinality({i \in 1..Len(orders) : orders[i].employeeId = e})
    + Cardinality({c \in cartItems : c.employeeId = e})
  > maxSelectionsOf(branding)

ordersWithinSelections(e) ==
  Cardinality({i \in 1..Len(orders) : orders[i].employeeId = e})
    <= maxSelectionsOf(branding)

C8_SelectionLimit ==
  [][\A e \in Employees :
       LET m == maxSelectionsOf(branding)
           hasCart == {c \in cartItems : c.employeeId = e} # {}
       IN /\ (PostOrders(e) /\ m # 0 - 1 /\ hasCart /\ selectionsExceeded(e))
               => resp'.status = "selection_limit" /\ dbSame
          /\ \A ok \in BOOLEAN :
               (CreateCopayOrder(e, ok) /\ m # 0 - 1 /\ hasCart /\ selectionsExceeded(e))
                 => resp'.status = "selection_limit" /\ dbSame
          /\ \A ok \in BOOLEAN, txnId \in 1..MaxTxns :
               (/\ VerifyCopay(e, txnId, ok) /\ m # 0 - 1 /\ hasCart
                /\ selectionsExceeded(e))
                 => /\ resp'.status \in {"selection_limit", "payment_not_completed"}
                    /\ dbSame
          /\ m = 0 - 1 => resp'.status # "selection_limit"
          /\ m # 0 - 1 => ordersWithinSelections(e) /\ ordersWithinSelections(e)']_vars

\* a checkout was refused at the selection limit although the employee has
\* points left and an order already
C8_Witness ==
  /\ resp.op \in {"POST_orders", "create_copay", "verify_copay"}
  /\ resp.status = "selection_limit"
  /\ Len(orders) = maxSelectionsOf(branding)
  /\ cartItems # {}

(***************************************************************************)
(* C9.  The co-pay path (create-copay-order, verify-copay) is admitted     *)
(* only when employee.points < totalPointsRequired and otherwise answers   *)
(* that the points suffice, so at most one of the points checkout and the  *)
(* co-pay checkout passes its points test; the amount asked of the gateway *)
(* is ceil((totalPointsRequired - employee.points) * inrPerPoint).         *)
(***************************************************************************)
C9_CopayOnlyOnDeficit ==
  [][\A e \in Employees :
       LET items == getCartItems(e)
           total == cartPoints(items)
           points == employees[e].points
           passable == /\ Len(items) > 0
                       /\ ~selectionLimitReached(e, items)
                       /\ firstUnavailable(items, 1) = 0
       IN /\ ~(~insufficientPoints(points, total) /\ ~sufficientPoints(points, total))
          /\ (PostOrders(e) /\ resp'.status = "ok") => points >= total
          /\ \A ok \in BOOLEAN :
               CreateCopayOrder(e, ok) =>
                 /\ resp'.status = "ok" =>
                      /\ points < total
                      /\ payments' = Append(payments,
                                       [employeeId |-> e,
                                        amount |-> 100 * copayFor(e),
                                        code |-> "PAYMENT_PENDING"])
                 /\ (passable /\ points >= total)
                      => resp'.status = "sufficient_points"
          /\ \A ok \in BOOLEAN, txnId \in 1..MaxTxns :
               VerifyCopay(e, txnId, ok) =>
                 /\ resp'.status = "ok" =>
                      points < total /\ resp'.expected = copayFor(e)
                 /\ (passable /\ points >= total /\ paymentSucceeded(txnId, ok))
                      => resp'.status = "sufficient_points"]_vars

\* the gateway was asked for a co-pay that covers only part of the cart
C9_Witness ==
  /\ resp.op = "create_copay" /\ resp.status = "ok"
  /\ \E e \in Employees :
       /\ employees[e].points > 0
       /\ payments[resp.txnId].amount = 100 * copayFor(e)
       /\ payments[resp.txnId].amount > 0

(***************************************************************************)
(* C10.  verify-copay writes nothing (stock, orders, points, cart) unless  *)
(* the gateway reports success with code PAYMENT_SUCCESS and the paid      *)
(* amount equals the co-pay recomputed from the cart and the points at     *)
(* verification; a paid amount off by one is answered "Amount mismatch"    *)
(* and leaves the state unchanged.                                         *)
(***************************************************************************)
C10_VerifyWritesOnlyWhenPaidExactly ==
  [][\A e \in Employees, txnId \in 1..MaxTxns, ok \in BOOLEAN :
       VerifyCopay(e, txnId, ok) =>
         /\ dbSame
            \/ /\ ok
               /\ txnId \in 1..Len(payments)
               /\ payments[txnId].code = "PAYMENT_SUCCESS"
               /\ payments[txnId].amount = 100 * copayFor(e)
         /\ payments' = payments
         /\ resp'.status = "amount_mismatch" =>
              /\ dbSame
              /\ resp'.expected = copayFor(e)
              /\ resp'.paid * 100 = payments[txnId].amount
              /\ resp'.paid # resp'.expected
         /\ (/\ paymentSucceeded(txnId, ok)
             /\ Len(getCartItems(e)) > 0
             /\ ~selectionLimitReached(e, getCartItems(e))
             /\ firstUnavailable(getCartItems(e), 1) = 0
             /\ employees[e].points < cartPoints(getCartItems(e))
             /\ payments[txnId].amount # 100 * copayFor(e))
              => resp'.status = "amount_mismatch"]_vars

\* a verification was refused because the paid amount is one rupee short
C10_Witness ==
  /\ resp.op = "verify_copay" /\ resp.status = "amount_mismatch"
  /\ resp.expected = resp.paid + 1
  /\ cartItems # {}

(***************************************************************************)
(* C11.  A co-pay checkout (verify-copay) that succeeds sets the           *)
(* employee's points to 0, creates exactly one order per cart item, each   *)
(* carrying the payment reference and the co-pay, lowers each product's    *)
(* stock by the quantity ordered and empties the employee's cart.          *)
(***************************************************************************)
C11_CopayCheckoutEffect ==
  [][\A e \in Employees, txnId \in 1..MaxTxns, ok \in BOOLEAN :
       LET items == getCartItems(e)
       IN (VerifyCopay(e, txnId, ok) /\ resp'.status = "ok") =>
            /\ Len(items) > 0
            /\ employees'[e].points = 0
            /\ Len(orders') = Len(orders) + Len(items)
            /\ SubSeq(orders', 1, Len(orders)) = orders
            /\ \A i \in 1..Len(items) :
                 /\ newOrders[i].employeeId = e
                 /\ newOrders[i].productId = items[i].productId
                 /\ newOrders[i].quantity = items[i].quantity
                 /\ newOrders[i].selectedColor = items[i].selectedColor
                 /\ newOrders[i].phonepeOrderId = txnId
                 /\ newOrders[i].copayInr = Some(payments[txnId].amount \div 100)
            /\ \A p \in Products :
                 products'[p].stock = products[p].stock - orderedQty(items, p)
            /\ {c \in cartItems' : c.employeeId = e} = {}]_vars

\* an employee without points has paid exactly 100 rupees for two pens at 50
\* (one rupee a point): one order, the stock two lower
C11_Witness ==
  /\ resp.op = "verify_copay" /\ resp.status = "ok" /\ resp.paid = 100
  /\ Len(orders) = 1
  /\ orders[1].productId = "p2" /\ orders[1].quantity = 2
  /\ orders[1].unitPrice = 50 /\ orders[1].phonepeOrderId = resp.txnId
  /\ inrPerPointOf(branding) = 100
  /\ products["p2"].stock = InitialStock - 2
  /\ \A e \in Employees : employees[e].points = 0
  /\ cartItems = {}

(***************************************************************************)
(* C12.  For the product as it is when the request is served and the       *)
(* quantity of the line, the unit price is the same in every path: the     *)
(* unitPrice stamped on an order by the points checkout and by the co-pay  *)
(* checkout, and the unitPrice of a snapshot line of POST                  *)
(* /api/bulkbuy/checkout and of POST /api/bulkbuy/request, are all the     *)
(* price of the first slab containing the quantity, else the base price.   *)
(***************************************************************************)
\* the price list read directly: the slab of least index that contains the
\* quantity decides, if its price is a number >= 0
priceFor(product, qty) ==
  LET slabs == product.priceSlabs
      hits == {i \in 1..Len(slabs) :
                 /\ slabs[i].minQty <= qty
                 /\ (slabs[i].maxQty = Null \/ qty <= slabs[i].maxQty[1])}
      first == CHOOSE i \in hits : \A j \in hits : i <= j
      base == Number(product.price)[1]
  IN IF hits = {} THEN base
     ELSE IF Number(slabs[first].price) = Null THEN base
     ELSE IF Number(slabs[first].price)[1] < 0 THEN base
     ELSE Number(slabs[first].price)[1]

newRequest == bulkBuyRequests'[Len(bulkBuyRequests')]

C12_SameUnitPriceInEveryPath ==
  [][\A e \in Employees :
       /\ (\/ PostOrders(e)
           \/ \E txnId \in 1..MaxTxns, ok \in BOOLEAN : VerifyCopay(e, txnId, ok))
            => \A i \in 1..Len(newOrders) :
                 newOrders[i].unitPrice
                   = priceFor(products[newOrders[i].productId],
                              newOrders[i].quantity)
       /\ (/\ \/ \E mailOk \in BOOLEAN : BulkBuyCheckout(e, mailOk)
              \/ \E pid \in Products, q \in 0..MaxQty, mailOk \in BOOLEAN :
                   BulkBuyRequest(e, pid, q, NULL, mailOk)
           /\ Len(bulkBuyRequests') > Len(bulkBuyRequests))
            => \A i \in 1..Len(newRequest.items) :
                 /\ newRequest.items[i].unitPrice
                      = priceFor(products[newRequest.items[i].productId],
                                 newRequest.items[i].quantity)
                 /\ newRequest.items[i].lineTotal
                      = newRequest.items[i].quantity * newRequest.items[i].unitPrice
      ]_vars

\* two pens cost 50 each in an order and in a bulk-buy request
C12_Witness ==
  /\ Len(orders) > 0 /\ Len(bulkBuyRequests) > 0
  /\ orders[1].productId = "p2" /\ orders[1].quantity = 2
  /\ orders[1].unitPrice = 50
  /\ bulkBuyRequests[1].items[1].productId = "p2"
  /\ bulkBuyRequests[1].items[1].quantity = 2
  /\ bulkBuyRequests[1].items[1].unitPrice = 50

(***************************************************************************)
(* C13.  getUnitPriceForQty returns the base price when the product has no *)
(* slabs; otherwise the price of the first slab in list order whose closed *)
(* range [minQty, maxQty or infinity] contains the quantity, if that price *)
(* is a number >= 0, and the base price when no slab contains the quantity *)
(* or the price of that slab is invalid.  With slabs 1..9 at 100 and       *)
(* 10..open at 80 and base 120: 5 and 9 give 100, 10 gives 80.             *)
(***************************************************************************)
ExampleProduct ==
  [price |-> "120",
   priceSlabs |-> <<[minQty |-> 1, maxQty |-> Some(9), price |-> "100"],
                    [minQty |-> 10, maxQty |-> Null, price |-> "80"]>>]

C13_FirstMatchingSlabOrBase ==
  [][\A qty \in 1..MaxResolveQty :
       GetUnitPriceForQty(qty) =>
         /\ priceResult'.returned = Some(priceFor(priceArg, qty))
         /\ priceArg.priceSlabs = <<>> => priceResult'.returned = Some(120)
         /\ priceArg = ExampleProduct =>
              /\ qty \in {5, 9} => priceResult'.returned = Some(100)
              /\ qty = 10 => priceResult'.returned = Some(80)]_vars

\* quantity 9, the upper end of the first range of the example, costs 100
C13_Witness ==
  /\ priceArg = ExampleProduct
  /\ priceResult = [qty |-> 9, returned |-> Some(100)]

(***************************************************************************)
(* C14.  The resolver rejects a quantity of 0: a call with quantity 0      *)
(* returns no price.                                                       *)
(***************************************************************************)
C14_ZeroQuantityRejected ==
  [][GetUnitPriceForQty(0) => priceResult'.returned = Null]_vars

(***************************************************************************)
(* C15.  Whenever normalizePriceSlabs returns a list, for any input, the   *)
(* list is sorted ascending by (minQty, maxQty with null as infinity), has *)
(* at most one slab with maxQty = null, and no two of its slabs have       *)
(* closed ranges [minQty, maxQty or infinity] with a common quantity.      *)
(***************************************************************************)
\* every quantity up to the largest number an input of the model can name
RangeQuantities == 1..(Number("15")[1] + 1)

contains(slab, q) ==
  slab.minQty <= q /\ (slab.maxQty = Null \/ q <= slab.maxQty[1])

inOrder(a, b) ==
  \/ a.minQty < b.minQty
  \/ /\ a.minQty = b.minQty
     /\ (b.maxQty = Null \/ (a.maxQty # Null /\ a.maxQty[1] <= b.maxQty[1]))

C15_ReturnedListIsCanonical ==
  slabsResult.error = "" =>
    LET out == slabsResult.slabs
    IN /\ \A i \in 1..Len(out), j \in 1..Len(out) :
            i < j => /\ inOrder(out[i], out[j])
                     /\ ~\E q \in RangeQuantities :
                           contains(out[i], q) /\ contains(out[j], q)
       /\ Cardinality({i \in 1..Len(out) : out[i].maxQty = Null}) <= 1

\* two ranges given in descending order are returned in ascending order
C15_Witness ==
  /\ slabsResult.error = ""
  /\ Len(slabsArg.items) = 2 /\ Len(slabsResult.slabs) = 2
  /\ slabsArg.items[1].minQty = "10"
  /\ slabsResult.slabs[1].minQty < 10
  /\ slabsResult.slabs[2].minQty = 10

(***************************************************************************)
(* C16.  normalizePriceSlabs never returns a list for an input in which    *)
(* two retained slabs, each valid by itself, have closed ranges with a     *)
(* common quantity, ranges that only touch at one end included ([1,10]     *)
(* with [10,15], [1,10] with [5,15]); when the input violates no other     *)
(* rule, the error is the overlap error.                                   *)
(***************************************************************************)
\* the input record read directly: texts to numbers, blank maxQty open-ended
blank(text) == text = NULL \/ text = "" \/ text = " "

isRetained(r) ==
  /\ Number(r.minQty) # Null /\ Number(r.minQty)[1] > 0
  /\ ~blank(r.price)

priceValid(r) == Number(r.price) # Null /\ Number(r.price)[1] >= 0

maxValid(r) ==
  \/ r.maxQty \in {NULL, ""}
  \/ Number(r.maxQty) # Null /\ Number(r.maxQty)[1] >= Number(r.minQty)[1]

rangeContains(r, q) ==
  /\ Number(r.minQty)[1] <= q
  /\ (r.maxQty \in {NULL, ""} \/ q <= Number(r.maxQty)[1])

retainedOf(input) == {i \in 1..Len(input.items) : isRetained(input.items[i])}

twoShareAQuantity(input) ==
  \E i \in retainedOf(input), j \in retainedOf(input) :
    /\ i # j
    /\ priceValid(input.items[i]) /\ maxValid(input.items[i])
    /\ priceValid(input.items[j]) /\ maxValid(input.items[j])
    /\ \E q \in RangeQuantities :
         rangeContains(input.items[i], q) /\ rangeContains(input.items[j], q)

severalOpenEnded(input) ==
  Cardinality({i \in retainedOf(input) : input.items[i].maxQty \in {NULL, ""}}) > 1

C16_OverlapIsRejected ==
  [][NormalizePriceSlabs /\ slabsArg.isArray /\ twoShareAQuantity(slabsArg) =>
       /\ slabsResult'.error # ""
       /\ (/\ \A i \in retainedOf(slabsArg) :
                priceValid(slabsArg.items[i]) /\ maxValid(slabsArg.items[i])
           /\ ~severalOpenEnded(slabsArg))
            => slabsResult'.error = OverlapError]_vars

\* [1,10] and [10,15] touch at 10: the overlap error
C16_Witness ==
  /\ slabsResult.error = OverlapError
  /\ Len(slabsArg.items) = 2
  /\ slabsArg.items[1] = [minQty |-> "1", maxQty |-> "10", price |-> "100"]
  /\ slabsArg.items[2] = [minQty |-> "10", maxQty |-> "15", price |-> "100"]

(***************************************************************************)
(* C17.  normalizePriceSlabs fails fast in rule order: of the rules an     *)
(* input violates, the error reported is that of the first in the order    *)
(* invalid price, invalid maxQty, more than one open-ended slab, overlap,  *)
(* wherever the offending records stand in the input.                      *)
(***************************************************************************)
somePriceInvalid(input) ==
  \E i \in retainedOf(input) : ~priceValid(input.items[i])

someMaxInvalid(input) ==
  \E i \in retainedOf(input) : ~maxValid(input.items[i])

C17_ErrorOfFirstViolatedRule ==
  [][NormalizePriceSlabs /\ slabsArg.isArray =>
       IF somePriceInvalid(slabsArg) THEN slabsResult'.error = PriceError
       ELSE IF someMaxInvalid(slabsArg) THEN slabsResult'.error = MaxQtyError
       ELSE IF severalOpenEnded(slabsArg) THEN slabsResult'.error = OpenEndedError
       ELSE IF twoShareAQuantity(slabsArg) THEN slabsResult'.error = OverlapError
       ELSE slabsResult'.error = ""]_vars

(***************************************************************************)
(* C18.  A bulk-buy request is created pending_approval and leaves that    *)
(* status exactly once: once it is approved or rejected, no later PUT      *)
(* /api/admin/bulkbuy/requests/:id changes its status, and none moves it   *)
(* back to pending_approval.                                               *)
(***************************************************************************)
C18_DecidedOnce ==
  [][/\ \A id \in 1..Len(bulkBuyRequests) :
          bulkBuyRequests[id].status # "pending_approval" =>
            bulkBuyRequests'[id].status = bulkBuyRequests[id].status
     /\ \A id \in (Len(bulkBuyRequests) + 1)..Len(bulkBuyRequests') :
          bulkBuyRequests'[id].status = "pending_approval"]_vars

(***************************************************************************)
(* C19.  The items snapshot and the totalAmount of a bulk-buy request      *)
(* never change after creation: not by the administrator's decision, not   *)
(* by a later change of the product's price, slabs, name or stock.         *)
(***************************************************************************)
C19_SnapshotFrozen ==
  [][/\ Len(bulkBuyRequests') >= Len(bulkBuyRequests)
     /\ \A id \in 1..Len(bulkBuyRequests) :
          /\ bulkBuyRequests'[id].items = bulkBuyRequests[id].items
          /\ bulkBuyRequests'[id].totalAmount = bulkBuyRequests[id].totalAmount
          /\ bulkBuyRequests'[id].employeeId = bulkBuyRequests[id].employeeId]_vars

\* a request for two pens at 50 was approved with a note, and the pen has
\* since been renamed, re-priced and its stock changed
C19_Witness ==
  /\ Len(bulkBuyRequests) > 0
  /\ bulkBuyRequests[1].status = "approved"
  /\ bulkBuyRequests[1].procurementNote = "checked"
  /\ bulkBuyRequests[1].items =
       <<[productId |-> "p2", name |-> "Pen", selectedColor |-> NULL,
          quantity |-> 2, unitPrice |-> 50, lineTotal |-> 100]>>
  /\ bulkBuyRequests[1].totalAmount = 10000
  /\ products["p2"].name = "Pencil"
  /\ products["p2"].price = "99"
  /\ products["p2"].stock # InitialStock
  /\ getUnitPriceForQty(products["p2"], 2) = 80

(***************************************************************************)
(* C20.  Submitting a bulk-buy request (POST /api/bulkbuy/checkout or POST *)
(* /api/bulkbuy/request) leaves every employee's points, every product's   *)
(* stock, the regular cart and the orders unchanged; its only persistent   *)
(* effects are one new request in pending_approval and, for the checkout,  *)
(* the bulk-buy cart of the employee cleared.                              *)
(***************************************************************************)
oneNewPendingRequest(e) ==
  /\ Len(bulkBuyRequests') = Len(bulkBuyRequests) + 1
  /\ SubSeq(bulkBuyRequests', 1, Len(bulkBuyRequests)) = bulkBuyRequests
  /\ newRequest.status = "pending_approval"
  /\ newRequest.employeeId = e

C20_SubmissionTouchesOnlyBulkBuy ==
  [][\A e \in Employees, mailOk \in BOOLEAN :
       /\ BulkBuyCheckout(e, mailOk) =>
            /\ UNCHANGED <<products, employees, campaigns, campaignProducts,
                           branding, cartItems, orders, payments>>
            /\ \/ UNCHANGED bulkVars
               \/ /\ oneNewPendingRequest(e)
                  /\ bulkBuyCartItems' =
                       {c \in bulkBuyCartItems : c.employeeId # e}
       /\ \A pid \in Products, q \in 0..MaxQty :
            BulkBuyRequest(e, pid, q, NULL, mailOk) =>
              /\ UNCHANGED <<products, employees, campaigns, campaignProducts,
                             branding, cartItems, orders, payments,
                             bulkBuyCartItems>>
              /\ UNCHANGED bulkBuyRequests \/ oneNewPendingRequest(e)]_vars

\* a bulk-buy checkout has just been accepted while the regular cart holds
\* an item and an order exists: stock is what the order left
C20_Witness ==
  /\ resp.op = "bulkbuy_checkout" /\ resp.status = "ok"
  /\ Len(bulkBuyRequests) = 1
  /\ bulkBuyRequests[1].status = "pending_approval"
  /\ bulkBuyCartItems = {}
  /\ cartItems # {}
  /\ Len(orders) = 1
  /\ products["p2"].stock = InitialStock - orders[1].quantity
  /\ \E e \in Employees : employees[e].points > 0

(***************************************************************************)
(* SpecNotify: bulk-buy requests are submitted from the cart or directly   *)
(* and decided by the administrator, each notification either sent or not. *)
(***************************************************************************)
NextNotify ==
  \/ \E e \in Employees, q \in Quantities : PostBulkBuyCart(e, "p2", q, NULL, "2")
  \/ \E e \in Employees, mailOk \in BOOLEAN : BulkBuyCheckout(e, mailOk)
  \/ \E e \in Employees, pid \in Products, q \in Quantities, mailOk \in BOOLEAN :
       BulkBuyRequest(e, pid, q, NULL, mailOk)
  \/ \E id \in 1..MaxRequests, status \in RequestStatuses,
        note \in {NULL, "checked"}, mailOk \in BOOLEAN :
       AdminUpdateBulkBuyRequest(id, status, note, mailOk)

SpecNotify == InitBulkBuy /\ [][NextNotify]_vars

InitRace ==
  /\ Init
  /\ \A e \in Employees : employees[e].points > 0
  /\ maxSelectionsOf(branding) = 0 - 1

CheckoutSteps(r, oks) ==
  \/ \E e \in Employees : BeginOrders(r, e)
  \/ GetProduct(r)
  \/ \E ok \in oks : UpdateProduct(r, ok)
  \/ CountOrders(r)
  \/ \E ok \in oks : InsertOrder(r, ok)
  \/ \E ok \in oks : UpdateEmployee(r, ok)
  \/ \E ok \in oks : ClearCart(r, ok)

NextRace ==
  \/ \E e \in Employees, q \in Quantities : PostCart(e, "p1", NULL, NULL, q, NULL)
  \/ \E r \in Requests : CheckoutSteps(r, {TRUE})

SpecRace == InitRace /\ [][NextRace]_vars

(***************************************************************************)
(* C22: when two createOrder calls interleave so that both count the       *)
(* orders before either inserts, both compute the same ORD-YYYY-NNN, and   *)
(* both orders are created all the same: every insert of a createOrder     *)
(* call adds its order.                                                    *)
(***************************************************************************)
C22_EveryInsertCreatesItsOrder ==
  [][\A r \in Requests :
       InsertOrder(r, TRUE) =>
         /\ Len(orders') = Len(orders) + 1
         /\ orders'[Len(orders')].orderId = inflight[r].next]_vars

(***************************************************************************)
(* SpecStock: requests served one at a time; pens of either colour are put *)
(* into the cart, taken out and checked out with points.                   *)
(***************************************************************************)
NextStock ==
  \/ \E e \in Employees, color \in Colors, q \in Quantities :
       PostCart(e, "p2", color, NULL, q, NULL)
  \/ \E id \in 1..MaxCartItems : DeleteCart(id)
  \/ \E e \in Employees : PostOrders(e)

SpecStock == Init /\ [][NextStock]_vars

(***************************************************************************)
(* C23: with requests served one at a time, the stock of every product is  *)
(* non-negative in every reachable state, also when the cart holds several *)
(* items of the same product, each within the stock but together above it. *)
(***************************************************************************)
C23_StockNeverNegative ==
  \A pid \in Products : products[pid].stock >= 0

(***************************************************************************)
(* C24: with requests served one at a time, whatever adds, updates and     *)
(* checkouts came before, the quantities of an employee's orders that      *)
(* carry a campaign's id never add up to more than the campaign's          *)
(* maxProductsPerUser, when that is not null; an add without campaignId    *)
(* that is merged into a cart item of the campaign does not get past it.   *)
(***************************************************************************)
C24_OrderedWithinCampaignCap ==
  \A e \in Employees, cid \in Campaigns :
    ~IsNull(campaigns[cid].maxProductsPerUser) =>
      SumQuantity({[n |-> i, quantity |-> orders[i].quantity] :
                     i \in {j \in 1..Len(orders) :
                              /\ orders[j].employeeId = e
                              /\ orders[j].campaignId = cid}})
        <= Val(campaigns[cid].maxProductsPerUser)

(***************************************************************************)
(* C25: the stock check and the stock decrement are not one atomic step.   *)
(* The write of the commit loop stores the stock the loop has read minus   *)
(* the item's quantity and checks nothing, whatever other checkouts have   *)
(* written since this one validated its cart; so checkouts that interleave *)
(* both pass the check and both decrement, and a negative stock, with more *)
(* units ordered than were in stock, is reached.                           *)
(***************************************************************************)
C25_DecrementIsUnchecked ==
  [][\A r \in Requests :
       UpdateProduct(r, TRUE) =>
         LET q == inflight[r]
             item == q.cartItems[q.i]
         IN /\ products'[item.productId].stock = q.p[1].stock - item.quantity
            /\ inflight'[r].pc = "countOrders"
            /\ resp' = resp]_vars

\* two checkouts of the mugs in the cart have both gone through: two orders
\* for more mugs than there were, and a negative stock
C25_Witness ==
  /\ products["p1"].stock < 0
  /\ Len(orders) = 2
  /\ \A i \in 1..2 : orders[i].productId = "p1"
  /\ orders[1].quantity + orders[2].quantity > InitialStock
  /\ \A r \in Requests : inflight[r].pc = "idle"
  /\ resp.status = "ok"

(***************************************************************************)
(* C26: points are conserved across two points checkouts of the same       *)
(* employee that interleave: once both have ended, the balance has gone    *)
(* down by exactly the usedPoints of all the orders that were created.     *)
(***************************************************************************)
C26_PointsConserved ==
  LET pointsAtStart == CHOOSE pts \in InitialPoints : pts > 0
  IN \A e \in Employees :
       (\A r \in Requests : inflight[r].pc = "idle")
         => pointsAtStart - employees[e].points
              = SumSeq([i \in 1..Len(orders) |->
                          IF orders[i].employeeId = e
                          THEN orders[i].usedPoints ELSE 0])

(***************************************************************************)
(* C27: one successful gateway payment funds at most one committed co-pay  *)
(* checkout: verify-copay never commits for a transaction id that an       *)
(* earlier commit has used, also when the cart has been filled again to    *)
(* the same co-pay amount.                                                 *)
(***************************************************************************)
C27_PaymentFundsOneCheckout ==
  [][\A e \in Employees, txnId \in 1..MaxTxns :
       (VerifyCopay(e, txnId, TRUE) /\ resp'.status = "ok") =>
         \A i \in 1..Len(orders) : orders[i].phonepeOrderId # txnId]_vars

(***************************************************************************)
(* SpecPartial: requests are served one at a time; any write of the commit *)
(* of POST /api/orders may fail; mugs and pens are put into the cart while *)
(* no checkout is running.                                                 *)
(***************************************************************************)
NextPartial ==
  \/ \E e \in Employees, pid \in Products, q \in Quantities :
       /\ inflight["r1"].pc = "idle"
       /\ PostCart(e, pid, NULL, NULL, q, NULL)
  \/ CheckoutSteps("r1", BOOLEAN)

SpecPartial == InitRace /\ [][NextPartial]_vars

\* the items of the cart before item i whose order the request has created
\* are in the orders table, and the last write of each product's stock by
\* the request stands
earlierItemsCommitted(q) ==
  /\ Len(q.orders) = q.i - 1
  /\ \A k \in 1..Len(q.orders) :
       /\ \E j \in 1..Len(orders) : orders[j] = q.orders[k].order
       /\ q.orders[k].order.productId = q.cartItems[k].productId
       /\ q.orders[k].order.quantity = q.cartItems[k].quantity
       /\ (/\ \A l \in (k + 1)..Len(q.orders) :
                q.cartItems[l].productId # q.cartItems[k].productId
           /\ (q.pc = "insertOrder" =>
                 q.cartItems[q.i].productId # q.cartItems[k].productId))
            => products[q.cartItems[k].productId].stock
                 = q.orders[k].product.stock - q.cartItems[k].quantity

(***************************************************************************)
(* C28: when a write fails in the commit loop at item N (the stock write   *)
(* or the order insert), nothing is rolled back: the stock decrements and  *)
(* the orders of the items before N stay, the points are not deducted and  *)
(* the cart is not cleared; the request is answered with an error.         *)
(***************************************************************************)
C28_PartialCommitStays ==
  [][\A ok \in BOOLEAN :
       LET q == inflight["r1"]
       IN (/\ UpdateProduct("r1", ok) \/ InsertOrder("r1", ok)
           /\ inflight'["r1"] = Idle) =>
            /\ resp'.op = "POST_orders" /\ resp'.status = "error"
            /\ UNCHANGED <<products, orders, employees, cartItems>>
            /\ earlierItemsCommitted(q)
            /\ employees[q.employeeId].points = q.userPoints
            /\ getCartItems(q.employeeId) = q.cartItems
            /\ (q.pc = "insertOrder" =>
                  products[q.cartItems[q.i].productId].stock
                    = q.p[1].stock - q.cartItems[q.i].quantity)]_vars

\* the insert of the order for the second item of a cart has failed: the
\* first item's order and both stock decrements stay, the balance and the
\* cart are as before the checkout
C28_Witness ==
  /\ resp.op = "POST_orders" /\ resp.status = "error"
  /\ inflight["r1"].pc = "idle"
  /\ Len(orders) = 1
  /\ Cardinality(cartItems) = 2
  /\ \A pid \in Products : products[pid].stock < InitialStock
  /\ \A e \in Employees : employees[e].points \in InitialPoints

(***************************************************************************)
(* SpecAccounts: the administrator edits employees one by one and uploads  *)
(* sheets of them, accounts are created at the first login of an address   *)
(* of the whitelisted domain, and the employee checks out mugs with        *)
(* points.                                                                 *)
(***************************************************************************)
EmployeeEdits ==
  {[points |-> "100", bulkBuyAllowed |-> NULL],
   [points |-> "10.5", bulkBuyAllowed |-> "false"],
   [points |-> "-5", bulkBuyAllowed |-> NULL],
   [points |-> "abc", bulkBuyAllowed |-> NULL],
   [points |-> NULL, bulkBuyAllowed |-> NULL]}

SheetRows ==
  {[email |-> " E1 ", firstName |-> "Asha", lastName |-> "Rao",
    points |-> "100", bulkBuyAllowed |-> "yes"],
   [email |-> " E1 ", firstName |-> "Asha", lastName |-> "Rao",
    points |-> "-5", bulkBuyAllowed |-> NULL],
   [email |-> "E2", firstName |-> "Ravi", lastName |-> "Iyer",
    points |-> NULL, bulkBuyAllowed |-> NULL],
   [email |-> "E2", firstName |-> "", lastName |-> "Iyer",
    points |-> "50", bulkBuyAllowed |-> NULL],
   [email |-> "e1 at home", firstName |-> "Asha", lastName |-> "Rao",
    points |-> "50", bulkBuyAllowed |-> NULL]}

NextAccounts ==
  \/ \E id \in {"e1", "e3"}, body \in EmployeeEdits : AdminUpdateEmployee(id, body)
  \/ \E r \in SheetRows : BulkUploadEmployees(<<r>>)
  \/ \E r1 \in SheetRows, r2 \in SheetRows : BulkUploadEmployees(<<r1, r2>>)
  \/ \E email \in {NULL, "E2", "e3"}, emailSent \in BOOLEAN :
       SendOTP(email, "111111", emailSent)
  \/ \E e \in Employees, q \in Quantities : PostCart(e, "p1", NULL, NULL, q, NULL)
  \/ \E e \in Employees : PostOrders(e)

SpecAccounts == InitRace /\ [][NextAccounts]_vars

(***************************************************************************)
(* C29: the points balance of every employee is a non-negative integer in  *)
(* every reachable state, whatever checkouts, admin edits of employees,    *)
(* bulk uploads of employees and automatic creations of accounts came      *)
(* before.                                                                 *)
(***************************************************************************)
C29_PointsNonNegative ==
  \A e \in DOMAIN employees : employees[e].points \in Nat

(***************************************************************************)
(* SpecAuth: one-time passwords are issued, expire and are verified, for   *)
(* the employee's address, for an address of the whitelisted domain and    *)
(* for an address that may not log in.                                     *)
(***************************************************************************)
NextAuth ==
  \/ \E email \in {NULL, " E1 ", "E2", "e3", "e1 at home"}, code \in Codes,
        emailSent \in BOOLEAN :
       SendOTP(email, code, emailSent)
  \/ \E email \in {NULL, " E1 ", "E2", "e3"}, code \in Codes \cup {""},
        markOk \in BOOLEAN :
       VerifyOTP(email, code, markOk)
  \/ \E id \in 1..MaxOtps : OtpExpires(id)

SpecAuth == InitRace /\ [][NextAuth]_vars

(***************************************************************************)
(* C30: an issued OTP yields at most one session.  Whenever verifyOTP      *)
(* opens a session, the code is the code of the most recently issued       *)
(* unused OTP of the address, and that record is marked used by the call,  *)
(* so that the same code is rejected afterwards unless a new OTP with that *)
(* code is issued.                                                         *)
(***************************************************************************)
C30_OtpYieldsOneSession ==
  [][\A email \in {" E1 ", "E2"}, code \in Codes, markOk \in BOOLEAN :
       (VerifyOTP(email, code, markOk) /\ Len(sessions') = Len(sessions) + 1) =>
         LET otpRec == getLastOTPForEmail(normalizeEmail(email))
         IN /\ ~IsNull(otpRec)
            /\ otps[Val(otpRec)].code = code
            /\ ~otps[Val(otpRec)].used
            /\ otps'[Val(otpRec)].used
            /\ \A id \in 1..Len(otps) :
                 (otps[id].email = normalizeEmail(email) /\ ~otps[id].used)
                   => id <= Val(otpRec)]_vars

====
